---- MODULE Spec2Model ----
(***************************************************************************)
(* Model of the algorand-energy dashboard's data pipeline: the merge of    *)
(* per-country node counts with per-country carbon intensity               *)
(* (mergeCountryData) and the power / energy / emissions estimator         *)
(* (computeMetrics), and of the fetcher that produces the dashboard's data: *)
(* the carbon-intensity resolver (fetchCarbonIntensityData), the Grafana   *)
(* frame decoder (parseGrafanaResponse) and the node aggregator            *)
(* (fetchAllNodeData).                                                     *)
(*                                                                         *)
(* JavaScript numbers are modelled as exact rationals extended with NaN    *)
(* and the two infinities, so that a division by zero yields what the      *)
(* running code yields.  Rounding of IEEE doubles is not modelled: an      *)
(* equality of the model is an equality "within floating rounding" of the  *)
(* program.                                                                *)
(***************************************************************************)
EXTENDS Integers, Sequences, FiniteSets, TLC

VARIABLES geoData, carbonData, mergedData, nodeData, metrics,
          owidData, owidMetadata, owidIndex, entityLatestData,
          carbonIntensityData,
          nodeTypeResponse, nodeCountResponse, timestamp, nodeResult,
          response, decoded,
          geoResponse, geoTimestamp, geographicalData,
          clock, firstRun, secondRun,
          results, mainPc, errors, writes, fetchMetadata, exitCode,
          tableData, sortConfig, currentPage, rowsPerPage, searchQuery,
          sortedData

\* The dashboard's queries and memoised values.
dashVars == <<geoData, carbonData, mergedData, nodeData, metrics>>

\* fetchCarbonIntensityData: its two responses, its loop index and its maps.
owidVars == <<owidData, owidMetadata, owidIndex, entityLatestData,
              carbonIntensityData>>

\* fetchAllNodeData: its two responses, its argument and what it returns.
aggVars == <<nodeTypeResponse, nodeCountResponse, timestamp, nodeResult>>

\* parseGrafanaResponse: its argument and what it returns or throws.
decVars == <<response, decoded>>

\* fetchNodesByCountry: its response, its argument and what it returns.
geoFetchVars == <<geoResponse, geoTimestamp, geographicalData>>

\* The wall clock and the records of two runs of the fetchers.
runVars == <<clock, firstRun, secondRun>>

\* main of the fetcher: the settled fetches, its position, the errors it
\* collected, the file writes it attempted, the metadata record it built and
\* the exit code of the process.
mainVars == <<results, mainPc, errors, writes, fetchMetadata, exitCode>>

\* useTableState: its data, its four pieces of state and its sorted rows.
tableVars == <<tableData, sortConfig, currentPage, rowsPerPage, searchQuery,
               sortedData>>

\* The parts of the program the dashboard, the resolver, the aggregator and
\* the decoder never touch.
restVars == <<geoFetchVars, runVars, mainVars, tableVars>>

vars == <<dashVars, owidVars, aggVars, decVars, restVars>>

\* Longest node-distribution list drawn.
MaxGeo == 3

-----------------------------------------------------------------------------
(* JavaScript number arithmetic.                                            *)

\* A number is [k, n, d]: k = "num" is the rational n/d in lowest terms with
\* d > 0; k = "nan" is NaN; k = "inf" is +Infinity (n = 1) or -Infinity
\* (n = -1); k = "null" is the JavaScript null.
Abs(x) == IF x < 0 THEN -x ELSE x

RECURSIVE Gcd(_, _)
Gcd(a, b) == IF b = 0 THEN a ELSE Gcd(b, a % b)

NaN == [k |-> "nan", n |-> 0, d |-> 0]
Inf(s) == [k |-> "inf", n |-> s, d |-> 0]
Null == [k |-> "null", n |-> 0, d |-> 0]

Rat(n, d) ==
  LET g == Gcd(Abs(n), Abs(d))
      s == IF d < 0 THEN -1 ELSE 1
  IN  [k |-> "num", n |-> s * (n \div g), d |-> s * (d \div g)]

I(n) == [k |-> "num", n |-> n, d |-> 1]

Sign(a) == IF a.n > 0 THEN 1 ELSE IF a.n < 0 THEN -1 ELSE 0

IsNull(a) == a.k = "null"
IsNum(a) == a.k = "num"

\* a + b
Add(a, b) ==
  IF a.k = "nan" \/ b.k = "nan" THEN NaN
  ELSE IF a.k = "inf" /\ b.k = "inf" THEN (IF a.n = b.n THEN a ELSE NaN)
  ELSE IF a.k = "inf" THEN a
  ELSE IF b.k = "inf" THEN b
  ELSE LET g == Gcd(a.d, b.d)
       IN  Rat(a.n * (b.d \div g) + b.n * (a.d \div g), (a.d \div g) * b.d)

\* a * b
Mul(a, b) ==
  IF a.k = "nan" \/ b.k = "nan" THEN NaN
  ELSE IF a.k = "inf" \/ b.k = "inf"
    THEN (IF Sign(a) * Sign(b) = 0 THEN NaN ELSE Inf(Sign(a) * Sign(b)))
  ELSE IF a.n = 0 \/ b.n = 0 THEN I(0)
  ELSE LET g1 == Gcd(Abs(a.n), b.d)
           g2 == Gcd(Abs(b.n), a.d)
       IN  Rat((a.n \div g1) * (b.n \div g2), (a.d \div g2) * (b.d \div g1))

\* a / b
Div(a, b) ==
  IF a.k = "nan" \/ b.k = "nan" THEN NaN
  ELSE IF a.k = "inf" /\ b.k = "inf" THEN NaN
  ELSE IF a.k = "inf" THEN Inf(IF Sign(b) < 0 THEN -a.n ELSE a.n)
  ELSE IF b.k = "inf" THEN I(0)
  ELSE IF b.n = 0 THEN (IF a.n = 0 THEN NaN ELSE Inf(Sign(a)))
  ELSE Mul(a, Rat(b.d, b.n))

\* a > b  (false whenever an operand is NaN)
Gt(a, b) ==
  IF a.k = "nan" \/ b.k = "nan" THEN FALSE
  ELSE IF a.k = "inf" THEN a.n = 1 /\ ~(b.k = "inf" /\ b.n = 1)
  ELSE IF b.k = "inf" THEN b.n = -1
  ELSE a.n * b.d > b.n * a.d

-----------------------------------------------------------------------------
(* Static country tables (the entries the model's inputs use).              *)

Undefined == "undefined"
NullStr == "null"

ISO_2_TO_3 == [c \in {"US", "DE", "FR"} |->
                 CASE c = "US" -> "USA" [] c = "DE" -> "DEU" [] c = "FR" -> "FRA"]

COUNTRY_NAMES == [c \in {"US", "DE", "FR"} |->
                 CASE c = "US" -> "United States"
                   [] c = "DE" -> "Germany"
                   [] c = "FR" -> "France"]

\* obj[key] of a Record<string, string>: undefined when the key is absent.
Lookup(table, key) == IF key \in DOMAIN table THEN table[key] ELSE Undefined

\* The UTF-16 code units of the country codes the model draws.
CharCodes == [c \in {"US", "DE", "FR", "ZZ"} |->
                 CASE c = "US" -> <<85, 83>>
                   [] c = "DE" -> <<68, 69>>
                   [] c = "FR" -> <<70, 82>>
                   [] c = "ZZ" -> <<90, 90>>]

\* The flag glyph as its sequence of code points.
getCountryFlag(countryCode) ==
  [i \in 1..Len(CharCodes[countryCode]) |-> 127397 + CharCodes[countryCode][i]]

-----------------------------------------------------------------------------
(* mergeCountryData                                                         *)

\* new Map(carbonData.countries.map(c => [c.code, c.intensity])).get(code3):
\* the intensity of the last entry with that code, undefined (here Null,
\* which the caller turns into null with ??) when there is none.
RECURSIVE CarbonMapGet(_, _)
CarbonMapGet(countries, code3) ==
  IF countries = <<>> THEN Null
  ELSE IF countries[Len(countries)].code = code3
    THEN I(countries[Len(countries)].intensity)
    ELSE CarbonMapGet(SubSeq(countries, 1, Len(countries) - 1), code3)

\* reduce((sum, c) => sum + f(c), 0) over a sequence of numbers.
RECURSIVE SumSeq(_)
SumSeq(s) == IF s = <<>> THEN I(0) ELSE Add(SumSeq(SubSeq(s, 1, Len(s) - 1)), s[Len(s)])

\* Mutation: the reduce starts at the second entry.
TotalNodesSkipFirst(geo) == SumSeq([i \in 2..Len(geo) |-> I(geo[i].nodeCount)])

TotalNodes(geo) == SumSeq([i \in 1..Len(geo) |-> I(geo[i].nodeCount)])

\* Mutation: countryCode3 is kept only when an intensity was found.
CountryWithIntensityCode3Dropped(country, carbon) ==
  LET code3 == Lookup(ISO_2_TO_3, country.countryCode)
      intensity == IF code3 # Undefined THEN CarbonMapGet(carbon, code3) ELSE Null
      weightedEmissions ==
        IF ~IsNull(intensity) THEN Mul(I(country.nodeCount), intensity) ELSE I(0)
  IN  [countryCode2 |-> country.countryCode,
       countryCode3 |-> IF ~IsNull(intensity) THEN code3 ELSE NullStr,
       intensity |-> intensity,
       nodeCount |-> country.nodeCount,
       weightedEmissions |-> weightedEmissions]

\* Pass 1: the per-country record with its intensity and weighted emissions.
CountryWithIntensity(country, carbon) ==
  LET code3 == Lookup(ISO_2_TO_3, country.countryCode)
      intensity == IF code3 # Undefined THEN CarbonMapGet(carbon, code3) ELSE Null
      weightedEmissions ==
        IF ~IsNull(intensity) THEN Mul(I(country.nodeCount), intensity) ELSE I(0)
  IN  [countryCode2 |-> country.countryCode,
       countryCode3 |-> IF code3 # Undefined THEN code3 ELSE NullStr,
       intensity |-> intensity,
       nodeCount |-> country.nodeCount,
       weightedEmissions |-> weightedEmissions]

CountriesWithIntensity(geo, carbon) ==
  [i \in 1..Len(geo) |-> CountryWithIntensity(geo[i], carbon)]

TotalWeightedEmissions(geo, carbon) ==
  LET cwi == CountriesWithIntensity(geo, carbon)
  IN  SumSeq([i \in 1..Len(cwi) |-> cwi[i].weightedEmissions])

\* Mutation: the share is left as a fraction of 1.
NodePercentageAsFraction(country, totalNodes) ==
  Div(I(country.nodeCount), totalNodes)

NodePercentage(country, totalNodes) ==
  Mul(Div(I(country.nodeCount), totalNodes), I(100))

\* Mutation: the guard on totalWeightedEmissions is missing.
EmissionsPercentageUnguarded(country, totalWeightedEmissions) ==
  IF ~IsNull(country.intensity)
    THEN Mul(Div(country.weightedEmissions, totalWeightedEmissions), I(100))
    ELSE Null

\* Mutation: the share is taken of the country's node count, not of its
\* weighted emissions.
EmissionsPercentageOfNodes(country, totalWeightedEmissions) ==
  IF ~IsNull(country.intensity) /\ Gt(totalWeightedEmissions, I(0))
    THEN Mul(Div(I(country.nodeCount), totalWeightedEmissions), I(100))
    ELSE Null

EmissionsPercentage(country, totalWeightedEmissions) ==
  IF ~IsNull(country.intensity) /\ Gt(totalWeightedEmissions, I(0))
    THEN Mul(Div(country.weightedEmissions, totalWeightedEmissions), I(100))
    ELSE Null

\* Mutation: the ratio is inverted.
RelativeEmissionsInverted(emissionsPercentage, nodePercentage) ==
  IF ~IsNull(emissionsPercentage) /\ Gt(nodePercentage, I(0))
    THEN Div(nodePercentage, emissionsPercentage)
    ELSE Null

RelativeEmissions(emissionsPercentage, nodePercentage) ==
  IF ~IsNull(emissionsPercentage) /\ Gt(nodePercentage, I(0))
    THEN Div(emissionsPercentage, nodePercentage)
    ELSE Null

\* Pass 2: the output row of one country.
MergedRow(country, totalNodes, totalWeightedEmissions) ==
  LET nodePercentage == NodePercentage(country, totalNodes)
      emissionsPercentage == EmissionsPercentage(country, totalWeightedEmissions)
      name == Lookup(COUNTRY_NAMES, country.countryCode2)
  IN  [countryCode2 |-> country.countryCode2,
       countryCode3 |-> country.countryCode3,
       countryName |-> IF name # Undefined THEN name ELSE country.countryCode2,
       flagEmoji |-> getCountryFlag(country.countryCode2),
       nodeCount |-> country.nodeCount,
       nodePercentage |-> nodePercentage,
       carbonIntensity |-> country.intensity,
       emissionsPercentage |-> emissionsPercentage,
       relativeEmissions |-> RelativeEmissions(emissionsPercentage, nodePercentage)]

\* Mutation: an inner join, countries without intensity are dropped.
mergeCountryDataInnerJoin(geo, carbon) ==
  LET totalNodes == TotalNodes(geo)
      cwi == SelectSeq(CountriesWithIntensity(geo, carbon),
                       LAMBDA c : ~IsNull(c.intensity))
      totalWeightedEmissions == TotalWeightedEmissions(geo, carbon)
  IN  [i \in 1..Len(cwi) |-> MergedRow(cwi[i], totalNodes, totalWeightedEmissions)]

\* Mutation: totalNodes counts only the countries that have an intensity.
mergeCountryDataCoveredTotal(geo, carbon) ==
  LET cwi == CountriesWithIntensity(geo, carbon)
      totalNodes ==
        SumSeq([i \in 1..Len(cwi) |->
                  IF IsNull(cwi[i].intensity) THEN I(0) ELSE I(cwi[i].nodeCount)])
      totalWeightedEmissions == TotalWeightedEmissions(geo, carbon)
  IN  [i \in 1..Len(cwi) |-> MergedRow(cwi[i], totalNodes, totalWeightedEmissions)]

mergeCountryData(geo, carbon) ==
  LET totalNodes == TotalNodes(geo)
      cwi == CountriesWithIntensity(geo, carbon)
      totalWeightedEmissions == TotalWeightedEmissions(geo, carbon)
  IN  [i \in 1..Len(cwi) |-> MergedRow(cwi[i], totalNodes, totalWeightedEmissions)]

-----------------------------------------------------------------------------
(* computeMetrics                                                           *)

AVERAGE_NODE_POWER_W == 40
AVERAGE_NODE_POWER_KW == Div(I(AVERAGE_NODE_POWER_W), I(1000))
HOURS_PER_YEAR == 8766
LEDGER_SIZE_GB == 20
ARCHIVE_INDEXER_SIZE_GB == 4700
\* 0.02 kgCO2e/GB/year
AVG_SSD_ANNUALIZED_EMISSIONS_INTENSITY == Rat(2, 100)

\* Mutation: the rows are weighted by their emissions share.
RECURSIVE WeightedAvgByEmissionsShare(_)
WeightedAvgByEmissionsShare(emissionsData) ==
  IF emissionsData = <<>> THEN I(0)
  ELSE LET sum == WeightedAvgByEmissionsShare(
                    SubSeq(emissionsData, 1, Len(emissionsData) - 1))
           country == emissionsData[Len(emissionsData)]
       IN  IF ~IsNull(country.carbonIntensity) /\ ~IsNull(country.emissionsPercentage)
             THEN Add(sum, Mul(Div(country.emissionsPercentage, I(100)),
                               country.carbonIntensity))
             ELSE sum

\* emissionsData.reduce(...): the node-share-weighted intensity of the rows
\* that have a carbonIntensity.
RECURSIVE WeightedAvgEmissionsIntensity(_)
WeightedAvgEmissionsIntensity(emissionsData) ==
  IF emissionsData = <<>> THEN I(0)
  ELSE LET sum == WeightedAvgEmissionsIntensity(
                    SubSeq(emissionsData, 1, Len(emissionsData) - 1))
           country == emissionsData[Len(emissionsData)]
       IN  IF ~IsNull(country.carbonIntensity)
             THEN Add(sum, Mul(Div(country.nodePercentage, I(100)),
                               country.carbonIntensity))
             ELSE sum

\* Mutation: the relays are left out of the archival storage.
MainnetDistributedLedgerNoRelays(nd) ==
  Add(Mul(I(LEDGER_SIZE_GB), I(nd.totalNodes)),
      Mul(I(nd.archivers), I(ARCHIVE_INDEXER_SIZE_GB)))

MainnetDistributedLedger(nd) ==
  Add(Mul(I(LEDGER_SIZE_GB), I(nd.totalNodes)),
      Mul(I(nd.archivers + nd.relays), I(ARCHIVE_INDEXER_SIZE_GB)))

ValidatorDistributedLedger(nd) == Mul(I(LEDGER_SIZE_GB), I(nd.validators))

\* Mutation: the grams of the energy emissions are not converted to kilograms.
AnnualizedGHGEmissionsNoGramConversion(energyKWh, intensity, distributedLedger) ==
  LET energyEmissions == Mul(energyKWh, intensity)
      storageEmissions == Mul(distributedLedger, AVG_SSD_ANNUALIZED_EMISSIONS_INTENSITY)
  IN  Div(Add(energyEmissions, storageEmissions), I(1000))

\* The emissions of one segment in tonnes: energy emissions (g -> kg) plus
\* storage emissions (kg), over 1000.
AnnualizedGHGEmissions(energyKWh, intensity, distributedLedger) ==
  LET energyEmissions == Div(Mul(energyKWh, intensity), I(1000))
      storageEmissions == Mul(distributedLedger, AVG_SSD_ANNUALIZED_EMISSIONS_INTENSITY)
  IN  Div(Add(energyEmissions, storageEmissions), I(1000))

\* Mutation: the validator power stays in watts.
computeMetricsValidatorWatts(nd, emissionsData) ==
  LET mainnetPowerKW == Mul(I(nd.totalNodes), AVERAGE_NODE_POWER_KW)
      validatorPowerKW == Mul(I(nd.validators), I(AVERAGE_NODE_POWER_W))
      nodeEnergyKWh == Mul(AVERAGE_NODE_POWER_KW, I(HOURS_PER_YEAR))
      mainnetEnergyKWh == Mul(mainnetPowerKW, I(HOURS_PER_YEAR))
      validatorEnergyKWh == Mul(validatorPowerKW, I(HOURS_PER_YEAR))
      weightedAvgEmissionsIntensity == WeightedAvgEmissionsIntensity(emissionsData)
  IN  [mainnetPowerKW |-> mainnetPowerKW,
       validatorPowerKW |-> validatorPowerKW,
       nodeEnergyKWh |-> nodeEnergyKWh,
       mainnetEnergyKWh |-> mainnetEnergyKWh,
       validatorEnergyKWh |-> validatorEnergyKWh,
       weightedAvgEmissionsIntensity |-> weightedAvgEmissionsIntensity,
       annualizedMainnetGHGEmissions |->
         AnnualizedGHGEmissions(mainnetEnergyKWh, weightedAvgEmissionsIntensity,
                                MainnetDistributedLedger(nd)),
       annualizedValidationGHGEmissions |->
         AnnualizedGHGEmissions(validatorEnergyKWh, weightedAvgEmissionsIntensity,
                                ValidatorDistributedLedger(nd))]

computeMetrics(nd, emissionsData) ==
  LET mainnetPowerKW == Mul(I(nd.totalNodes), AVERAGE_NODE_POWER_KW)
      validatorPowerKW == Mul(I(nd.validators), AVERAGE_NODE_POWER_KW)
      nodeEnergyKWh == Mul(AVERAGE_NODE_POWER_KW, I(HOURS_PER_YEAR))
      mainnetEnergyKWh == Mul(mainnetPowerKW, I(HOURS_PER_YEAR))
      validatorEnergyKWh == Mul(validatorPowerKW, I(HOURS_PER_YEAR))
      weightedAvgEmissionsIntensity == WeightedAvgEmissionsIntensity(emissionsData)
  IN  [mainnetPowerKW |-> mainnetPowerKW,
       validatorPowerKW |-> validatorPowerKW,
       nodeEnergyKWh |-> nodeEnergyKWh,
       mainnetEnergyKWh |-> mainnetEnergyKWh,
       validatorEnergyKWh |-> validatorEnergyKWh,
       weightedAvgEmissionsIntensity |-> weightedAvgEmissionsIntensity,
       annualizedMainnetGHGEmissions |->
         AnnualizedGHGEmissions(mainnetEnergyKWh, weightedAvgEmissionsIntensity,
                                MainnetDistributedLedger(nd)),
       annualizedValidationGHGEmissions |->
         AnnualizedGHGEmissions(validatorEnergyKWh, weightedAvgEmissionsIntensity,
                                ValidatorDistributedLedger(nd))]

-----------------------------------------------------------------------------
(* Inputs.                                                                  *)

\* "ZZ" has no entry in ISO_2_TO_3.
GeoCodes == {"US", "DE", "ZZ"}
NodeCounts == {0, 400, 600}
CarbonCodes == {"USA", "DEU"}
Intensities == {0, 200, 400}

GeoEntries == [countryCode : GeoCodes, nodeCount : NodeCounts]
CarbonEntries == [code : CarbonCodes, intensity : Intensities]

SeqsUpTo(S, n) == UNION {[1..m -> S] : m \in 0..n}

\* The lists the first fetch delivers; a refetch (AddCountry) extends them up
\* to MaxGeo entries.
GeoInputs == SeqsUpTo(GeoEntries, MaxGeo - 1)

\* Carbon lists carry one entry per country code, as the resolver emits them.
CarbonInputs ==
  {c \in SeqsUpTo(CarbonEntries, Cardinality(CarbonCodes)) :
     \A i, j \in 1..Len(c) : c[i].code = c[j].code => i = j}

\* What a useMemo holds: null, or the computed value.
NotComputed == [isNull |-> TRUE, data |-> <<>>]
Computed(v) == [isNull |-> FALSE, data |-> v]

\* The node records the node query delivers: totalNodes is the sum the
\* fetcher stored.
NodeDataInputs ==
  {[apiNodes |-> 403, validators |-> v, relays |-> r, archivers |-> a,
    totalNodes |-> 403 + v + r + a] :
     v \in {0, 500}, r \in {0, 78}, a \in {0, 19}}

\* The node-distribution lists as fetchNodesByCountry stores them: positive
\* counts, one entry per country, sorted by count in non-increasing order.
FetchedGeoInputs ==
  {g \in GeoInputs :
     /\ \A i \in 1..Len(g) : g[i].nodeCount > 0
     /\ \A i, j \in 1..Len(g) :
          /\ g[i].countryCode = g[j].countryCode => i = j
          /\ i < j => g[i].nodeCount >= g[j].nodeCount}

-----------------------------------------------------------------------------
(* The hooks.  The queries have resolved; a render evaluates the useMemo of *)
(* useCountryEmissions and, when the node data is there, the useMemo of     *)
(* useNetworkPowerCalculations on its result.                               *)

\* A Grafana response without a result set.
NoResults == [hasResults |-> FALSE, frames |-> <<>>]

\* The carbon resolver is not running.
OwidIdle ==
  /\ owidData = <<>>
  /\ owidMetadata = <<>>
  /\ owidIndex = 0
  /\ entityLatestData = <<>>
  /\ carbonIntensityData = NotComputed

\* The node aggregator is not running.
AggIdle ==
  /\ nodeTypeResponse = NoResults
  /\ nodeCountResponse = NoResults
  /\ timestamp = ""
  /\ nodeResult = NotComputed

\* The decoder is not running.
DecIdle ==
  /\ response = NoResults
  /\ decoded = NotComputed

\* No node distribution is being fetched.
GeoFetchIdle ==
  /\ geoResponse = NoResults
  /\ geoTimestamp = ""
  /\ geographicalData = NotComputed

\* No run of the fetchers is being compared.
RunIdle ==
  /\ clock = 0
  /\ firstRun = NotComputed
  /\ secondRun = NotComputed

\* The fetcher's main has not been started.
MainIdle ==
  /\ results = <<>>
  /\ mainPc = "idle"
  /\ errors = <<>>
  /\ writes = <<>>
  /\ fetchMetadata = NotComputed
  /\ exitCode = -1

\* No table is mounted.
TableIdle ==
  /\ tableData = <<>>
  /\ sortConfig = [key |-> "", direction |-> ""]
  /\ currentPage = 0
  /\ rowsPerPage = 0
  /\ searchQuery = <<>>
  /\ sortedData = <<>>

RestIdle == GeoFetchIdle /\ RunIdle /\ MainIdle /\ TableIdle

\* No dashboard is mounted.
DashIdle ==
  /\ geoData = <<>>
  /\ carbonData = <<>>
  /\ mergedData = NotComputed
  /\ nodeData = NotComputed
  /\ metrics = NotComputed

\* useNetworkPowerCalculations' useMemo.
Metrics(nd, merged) ==
  IF nd.isNull \/ merged.isNull
    THEN NotComputed
    ELSE Computed(computeMetrics(nd.data, merged.data))

\* The node query is still loading: only the merge is computed.
Init ==
  /\ geoData \in GeoInputs
  /\ carbonData \in CarbonInputs
  /\ mergedData = NotComputed
  /\ nodeData = NotComputed
  /\ metrics = NotComputed
  /\ OwidIdle /\ AggIdle /\ DecIdle /\ RestIdle

\* All three queries have resolved.
InitPower ==
  /\ geoData \in FetchedGeoInputs
  /\ carbonData \in CarbonInputs
  /\ mergedData = NotComputed
  /\ nodeData \in {Computed(nd) : nd \in NodeDataInputs}
  /\ metrics = NotComputed
  /\ OwidIdle /\ AggIdle /\ DecIdle /\ RestIdle

\* The first render after the queries resolved.
Merge ==
  /\ mergedData = NotComputed
  /\ mergedData' = Computed(mergeCountryData(geoData, carbonData))
  /\ metrics' = Metrics(nodeData, mergedData')
  /\ UNCHANGED <<geoData, carbonData, nodeData, owidVars, aggVars, decVars, restVars>>

\* A refetch of the geographical data that reports one more entry.
AddCountry(entry) ==
  /\ mergedData # NotComputed
  /\ Len(geoData) < MaxGeo
  /\ geoData' = Append(geoData, entry)
  /\ mergedData' = Computed(mergeCountryData(geoData', carbonData))
  /\ metrics' = Metrics(nodeData, mergedData')
  /\ UNCHANGED <<carbonData, nodeData, owidVars, aggVars, decVars, restVars>>

\* A refetch of the node data.
RefetchNodes(nd) ==
  /\ mergedData # NotComputed
  /\ ~nodeData.isNull
  /\ nodeData' = Computed(nd)
  /\ metrics' = Metrics(nodeData', mergedData)
  /\ UNCHANGED <<geoData, carbonData, mergedData, owidVars, aggVars, decVars, restVars>>

Next ==
  \/ Merge
  \/ \E entry \in GeoEntries : AddCountry(entry)

NextPower ==
  \/ Merge
  \/ \E nd \in NodeDataInputs : RefetchNodes(nd)

Spec == Init /\ [][Next]_vars

SpecPower == InitPower /\ [][NextPower]_vars

-----------------------------------------------------------------------------
(* The merge, stated from its inputs.                                       *)

RECURSIVE IntSum(_)
IntSum(s) == IF s = <<>> THEN 0 ELSE s[1] + IntSum(Tail(s))

Merged == ~mergedData.isNull
Rows == mergedData.data

\* The country has an alpha-3 code and the carbon list has a record for it.
HasIntensity(code2) ==
  /\ code2 \in DOMAIN ISO_2_TO_3
  /\ \E i \in 1..Len(carbonData) : carbonData[i].code = ISO_2_TO_3[code2]

IntensityFor(code2) ==
  carbonData[CHOOSE i \in 1..Len(carbonData) :
               carbonData[i].code = ISO_2_TO_3[code2]].intensity

\* nodeCount * intensity of a covered country, 0 of any other.
WeightedOf(entry) ==
  IF HasIntensity(entry.countryCode)
    THEN entry.nodeCount * IntensityFor(entry.countryCode)
    ELSE 0

GeoTotal == IntSum([i \in 1..Len(geoData) |-> geoData[i].nodeCount])
WeightedTotal == IntSum([i \in 1..Len(geoData) |-> WeightedOf(geoData[i])])

\* A value the table may display: a finite number or null.
Displayable(v) == v.k \in {"num", "null"}

\* C1: when the node counts sum to a positive total, the nodePercentage
\* values of the merged rows sum to 100, whatever the carbon data.
C1_NodePercentageSum ==
  (Merged /\ GeoTotal > 0) =>
    SumSeq([i \in 1..Len(Rows) |-> Rows[i].nodePercentage]) = I(100)

C1_Witness ==
  /\ Merged /\ GeoTotal > 0 /\ Len(Rows) = MaxGeo
  /\ \E i \in 1..Len(Rows) : IsNull(Rows[i].carbonIntensity)
  /\ \E i \in 1..Len(Rows) : ~IsNull(Rows[i].carbonIntensity)

\* C2: if totalWeightedEmissions > 0 the non-null emissionsPercentage values
\* sum to 100, otherwise every emissionsPercentage is null.
C2_EmissionsPercentageSum ==
  Merged =>
    IF WeightedTotal > 0
      THEN SumSeq([i \in 1..Len(Rows) |->
                     IF IsNull(Rows[i].emissionsPercentage)
                       THEN I(0) ELSE Rows[i].emissionsPercentage]) = I(100)
      ELSE \A i \in 1..Len(Rows) : IsNull(Rows[i].emissionsPercentage)

C2_Witness ==
  /\ Merged /\ WeightedTotal > 0
  /\ \E i \in 1..Len(Rows) : IsNull(Rows[i].emissionsPercentage)
  /\ \E i, j \in 1..Len(Rows) :
       /\ i # j
       /\ ~IsNull(Rows[i].emissionsPercentage)
       /\ ~IsNull(Rows[j].emissionsPercentage)

\* C3: emissionsPercentage is null exactly when the country has no intensity
\* or totalWeightedEmissions is 0, and is otherwise
\* 100 * nodeCount * intensity / totalWeightedEmissions.
C3_EmissionsPercentageValue ==
  Merged =>
    /\ Len(Rows) = Len(geoData)
    /\ \A i \in 1..Len(geoData) :
         IF ~HasIntensity(geoData[i].countryCode) \/ WeightedTotal = 0
           THEN IsNull(Rows[i].emissionsPercentage)
           ELSE Rows[i].emissionsPercentage
                  = Rat(100 * WeightedOf(geoData[i]), WeightedTotal)

\* Scenario A: [{US,600},{DE,400}] with intensities 400 and 200 gives 75 and 25.
C3_Witness ==
  /\ Merged
  /\ geoData = <<[countryCode |-> "US", nodeCount |-> 600],
                 [countryCode |-> "DE", nodeCount |-> 400]>>
  /\ carbonData = <<[code |-> "USA", intensity |-> 400],
                    [code |-> "DEU", intensity |-> 200]>>
  /\ Rows[1].emissionsPercentage = I(75)
  /\ Rows[2].emissionsPercentage = I(25)

\* C4: relativeEmissions is null exactly when emissionsPercentage is null or
\* nodePercentage is 0, and is otherwise emissionsPercentage / nodePercentage;
\* it is 1 exactly when both shares are defined and
\* weightedEmissions * totalNodes = nodeCount * totalWeightedEmissions.
C4_RelativeEmissionsValue ==
  Merged =>
    /\ Len(Rows) = Len(geoData)
    /\ \A i \in 1..Len(geoData) :
         LET r == Rows[i]
             defined == /\ HasIntensity(geoData[i].countryCode)
                        /\ WeightedTotal > 0
                        /\ geoData[i].nodeCount > 0
         IN  /\ IsNull(r.relativeEmissions)
                  <=> (IsNull(r.emissionsPercentage) \/ r.nodePercentage = I(0))
             /\ ~IsNull(r.relativeEmissions) =>
                  r.relativeEmissions = Div(r.emissionsPercentage, r.nodePercentage)
             /\ defined <=> ~IsNull(r.relativeEmissions)
             /\ defined =>
                  r.relativeEmissions
                    = Rat(WeightedOf(geoData[i]) * GeoTotal,
                          geoData[i].nodeCount * WeightedTotal)
             /\ r.relativeEmissions = I(1)
                  <=> (defined /\ WeightedOf(geoData[i]) * GeoTotal
                                    = geoData[i].nodeCount * WeightedTotal)

\* Scenario A (relativeEmissions 1.25 and 0.625), or a row at exactly 1.
C4_Witness ==
  /\ Merged
  /\ Len(Rows) = 2
  /\ Rows[1].relativeEmissions = Rat(5, 4)
  /\ Rows[2].relativeEmissions = Rat(5, 8)

\* C5: the merge never emits a NaN or infinite nodePercentage,
\* emissionsPercentage or relativeEmissions.
C5_NoNaNRows ==
  Merged =>
    \A i \in 1..Len(Rows) :
      /\ Displayable(Rows[i].nodePercentage)
      /\ Displayable(Rows[i].emissionsPercentage)
      /\ Displayable(Rows[i].relativeEmissions)

\* C6: one row per node-distribution entry, in input order, with the entry's
\* countryCode2 and nodeCount; carbon records without an entry add no row.
C6_OneRowPerEntry ==
  Merged =>
    /\ Len(Rows) = Len(geoData)
    /\ \A i \in 1..Len(geoData) :
         /\ Rows[i].countryCode2 = geoData[i].countryCode
         /\ Rows[i].nodeCount = geoData[i].nodeCount

C6_Witness ==
  /\ Merged /\ Len(geoData) = MaxGeo
  /\ \E i \in 1..Len(geoData) : geoData[i].countryCode \notin DOMAIN ISO_2_TO_3
  /\ \E i \in 1..Len(geoData) : HasIntensity(geoData[i].countryCode)
  /\ \E j \in 1..Len(carbonData) :
       \A i \in 1..Len(geoData) :
         Lookup(ISO_2_TO_3, geoData[i].countryCode) # carbonData[j].code

\* C7: an unmapped alpha-2 code gives countryCode3 = null; a mapped code with
\* no intensity record keeps its alpha-3 code; both have carbonIntensity,
\* emissionsPercentage and relativeEmissions null.
C7_NullEmissionsFields ==
  Merged =>
    /\ Len(Rows) = Len(geoData)
    /\ \A i \in 1..Len(geoData) :
         LET code2 == geoData[i].countryCode
         IN  /\ code2 \notin DOMAIN ISO_2_TO_3 => Rows[i].countryCode3 = NullStr
             /\ (code2 \in DOMAIN ISO_2_TO_3 /\ ~HasIntensity(code2))
                  => Rows[i].countryCode3 = ISO_2_TO_3[code2]
             /\ ~HasIntensity(code2) =>
                  /\ IsNull(Rows[i].carbonIntensity)
                  /\ IsNull(Rows[i].emissionsPercentage)
                  /\ IsNull(Rows[i].relativeEmissions)

C7_Witness ==
  /\ Merged
  /\ \E i, j \in 1..Len(Rows) :
       /\ Rows[i].countryCode3 = NullStr /\ IsNull(Rows[i].carbonIntensity)
       /\ Rows[j].countryCode3 = "DEU" /\ IsNull(Rows[j].carbonIntensity)
  /\ \E i \in 1..Len(Rows) : ~IsNull(Rows[i].relativeEmissions)

\* A refetch that appended one country without intensity data and with a
\* positive node count to a list of positive node counts.
AddedUncovered ==
  /\ Merged /\ ~mergedData'.isNull
  /\ carbonData' = carbonData
  /\ Len(geoData') = Len(geoData) + 1
  /\ SubSeq(geoData', 1, Len(geoData)) = geoData
  /\ geoData'[Len(geoData')].nodeCount > 0
  /\ ~HasIntensity(geoData'[Len(geoData')].countryCode)
  /\ \A i \in 1..Len(geoData) : geoData[i].nodeCount > 0

\* C8 as stated: the addition strictly lowers every other nodePercentage,
\* keeps every other emissionsPercentage and strictly raises the
\* relativeEmissions of every covered country.
C8_RaisesEveryCovered ==
  [][AddedUncovered =>
       \A i \in 1..Len(geoData) :
         /\ Gt(Rows[i].nodePercentage, mergedData'.data[i].nodePercentage)
         /\ mergedData'.data[i].emissionsPercentage = Rows[i].emissionsPercentage
         /\ HasIntensity(geoData[i].countryCode) =>
              /\ IsNum(Rows[i].relativeEmissions)
              /\ IsNum(mergedData'.data[i].relativeEmissions)
              /\ Gt(mergedData'.data[i].relativeEmissions, Rows[i].relativeEmissions)
    ]_vars

\* C8 amended: relativeEmissions rises strictly for the covered countries of
\* positive intensity; a covered country of intensity 0 keeps its
\* relativeEmissions (0, or null when totalWeightedEmissions is 0).
C8_RaisesPositiveCovered ==
  [][AddedUncovered =>
       \A i \in 1..Len(geoData) :
         /\ Gt(Rows[i].nodePercentage, mergedData'.data[i].nodePercentage)
         /\ mergedData'.data[i].emissionsPercentage = Rows[i].emissionsPercentage
         /\ (HasIntensity(geoData[i].countryCode)
               /\ IntensityFor(geoData[i].countryCode) > 0) =>
              /\ IsNum(Rows[i].relativeEmissions)
              /\ IsNum(mergedData'.data[i].relativeEmissions)
              /\ Gt(mergedData'.data[i].relativeEmissions, Rows[i].relativeEmissions)
         /\ (HasIntensity(geoData[i].countryCode)
               /\ IntensityFor(geoData[i].countryCode) = 0) =>
              /\ mergedData'.data[i].relativeEmissions = Rows[i].relativeEmissions
              /\ Rows[i].relativeEmissions \in {I(0), Null}
    ]_vars

\* The refetch has appended an uncovered country to two covered ones, one of
\* positive and one of zero intensity.
C8_Witness ==
  /\ Merged /\ Len(geoData) = MaxGeo
  /\ \A i \in 1..Len(geoData) : geoData[i].nodeCount > 0
  /\ ~HasIntensity(geoData[MaxGeo].countryCode)
  /\ \E i, j \in 1..(MaxGeo - 1) :
       /\ HasIntensity(geoData[i].countryCode)
       /\ IntensityFor(geoData[i].countryCode) > 0
       /\ HasIntensity(geoData[j].countryCode)
       /\ IntensityFor(geoData[j].countryCode) = 0

-----------------------------------------------------------------------------
(* The estimator, stated from its inputs.                                   *)

HasMetrics == ~metrics.isNull
M == metrics.data
ND == nodeData.data

Minus(a, b) == Add(a, Mul(I(-1), b))

\* Storage emissions (kg) of the two segments as the estimator computes them.
MainnetStorage == Rat((20 * ND.totalNodes + 4700 * (ND.archivers + ND.relays)) * 2, 100)
ValidationStorage == Rat(20 * ND.validators * 2, 100)

\* C9 as stated: each segment's GHG figure is
\* (energy * weightedAvgEmissionsIntensity + storage emissions) / 1000.
C9_GHGWithoutGramConversion ==
  HasMetrics =>
    /\ M.annualizedMainnetGHGEmissions
         = Div(Add(Mul(M.mainnetEnergyKWh, M.weightedAvgEmissionsIntensity),
                   MainnetStorage), I(1000))
    /\ M.annualizedValidationGHGEmissions
         = Div(Add(Mul(M.validatorEnergyKWh, M.weightedAvgEmissionsIntensity),
                   ValidationStorage), I(1000))

\* C9 amended: each segment's GHG figure is
\* (energy * weightedAvgEmissionsIntensity / 1000 + storage emissions) / 1000,
\* both segments with the same network-wide intensity.
C9_GHGFormula ==
  HasMetrics =>
    /\ M.annualizedMainnetGHGEmissions
         = Div(Add(Div(Mul(M.mainnetEnergyKWh, M.weightedAvgEmissionsIntensity),
                       I(1000)),
                   MainnetStorage), I(1000))
    /\ M.annualizedValidationGHGEmissions
         = Div(Add(Div(Mul(M.validatorEnergyKWh, M.weightedAvgEmissionsIntensity),
                       I(1000)),
                   ValidationStorage), I(1000))

C9_Witness ==
  /\ HasMetrics
  /\ Gt(M.weightedAvgEmissionsIntensity, I(0))
  /\ ND.validators > 0 /\ ND.relays > 0 /\ ND.archivers > 0
  /\ M.annualizedMainnetGHGEmissions # M.annualizedValidationGHGEmissions

\* The storage emissions (kg) inside a segment's GHG figure.
StorageIn(ghg, energyKWh) ==
  Minus(Mul(ghg, I(1000)),
        Div(Mul(energyKWh, M.weightedAvgEmissionsIntensity), I(1000)))

\* C10 as stated: both segments' ledger size is 20 * the segment's node count
\* + 4700 * (archivers + relays), and storage emissions are ledger * 0.02.
C10_LedgerBothSegments ==
  HasMetrics =>
    /\ StorageIn(M.annualizedMainnetGHGEmissions, M.mainnetEnergyKWh)
         = Rat((20 * ND.totalNodes + 4700 * (ND.archivers + ND.relays)) * 2, 100)
    /\ StorageIn(M.annualizedValidationGHGEmissions, M.validatorEnergyKWh)
         = Rat((20 * ND.validators + 4700 * (ND.archivers + ND.relays)) * 2, 100)

\* C10 amended: the mainnet ledger is 20 * totalNodes + 4700 * (archivers +
\* relays); the validation ledger is 20 * validators, with no archive term;
\* storage emissions are ledger * 0.02.
C10_LedgerSize ==
  HasMetrics =>
    /\ StorageIn(M.annualizedMainnetGHGEmissions, M.mainnetEnergyKWh)
         = Rat((20 * ND.totalNodes + 4700 * (ND.archivers + ND.relays)) * 2, 100)
    /\ StorageIn(M.annualizedValidationGHGEmissions, M.validatorEnergyKWh)
         = Rat(20 * ND.validators * 2, 100)

C10_Witness ==
  /\ HasMetrics
  /\ ND.validators > 0 /\ ND.relays > 0 /\ ND.archivers > 0
  /\ Gt(M.weightedAvgEmissionsIntensity, I(0))
  /\ StorageIn(M.annualizedValidationGHGEmissions, M.validatorEnergyKWh) = I(200)

\* C11: weightedAvgEmissionsIntensity is the sum, over the merged rows that
\* have a carbonIntensity, of (nodePercentage / 100) * carbonIntensity; it is
\* 0 when no row has one.
C11_WeightedAvgIntensity ==
  HasMetrics =>
    /\ M.weightedAvgEmissionsIntensity
         = SumSeq([i \in 1..Len(Rows) |->
                     IF IsNull(Rows[i].carbonIntensity)
                       THEN I(0)
                       ELSE Mul(Div(Rows[i].nodePercentage, I(100)),
                                Rows[i].carbonIntensity)])
    /\ (\A i \in 1..Len(Rows) : IsNull(Rows[i].carbonIntensity))
         => M.weightedAvgEmissionsIntensity = I(0)
    /\ GeoTotal > 0 => M.weightedAvgEmissionsIntensity = Rat(WeightedTotal, GeoTotal)

\* US 600 nodes at 400 and DE 400 nodes without a record: 0.6 * 400 = 240.
C11_Witness ==
  /\ HasMetrics
  /\ Len(Rows) = 2
  /\ ~IsNull(Rows[1].carbonIntensity) /\ IsNull(Rows[2].carbonIntensity)
  /\ Rows[1].nodePercentage = I(60)
  /\ M.weightedAvgEmissionsIntensity = I(240)

\* C12: mainnetPowerKW = totalNodes * 40 / 1000, validatorPowerKW =
\* validators * 40 / 1000, and every energy figure is its power times 8766.
C12_PowerAndEnergy ==
  HasMetrics =>
    /\ M.mainnetPowerKW = Rat(ND.totalNodes * 40, 1000)
    /\ M.validatorPowerKW = Rat(ND.validators * 40, 1000)
    /\ M.nodeEnergyKWh = Rat(40 * 8766, 1000)
    /\ M.mainnetEnergyKWh = Mul(M.mainnetPowerKW, I(8766))
    /\ M.validatorEnergyKWh = Mul(M.validatorPowerKW, I(8766))

\* Scenario E: totalNodes = 1000 gives 40 kW and 350640 kWh.
C12_Witness ==
  /\ HasMetrics
  /\ ND.totalNodes = 1000 /\ ND.validators = 500
  /\ M.mainnetPowerKW = I(40)
  /\ M.mainnetEnergyKWh = I(350640)
  /\ M.validatorPowerKW = I(20)

-----------------------------------------------------------------------------
(* The carbon-intensity resolver (fetcher/src/clients/owid.ts).             *)
(* A string is the sequence of its characters; a nullable string is        *)
(* NullCode or Code(chars).                                                 *)

\* Most data points drawn for one resolution.
MaxPoints == 3

NullCode == [isNull |-> TRUE, data |-> <<>>]
Code(chars) == [isNull |-> FALSE, data |-> chars]

\* JavaScript truthiness of a nullable string.
Truthy(code) == ~code.isNull /\ code.data # <<>>

\* Decimal digits of a natural number, as `${entityId}` prints it.
RECURSIVE ToChars(_)
ToChars(n) ==
  LET digit == <<"0", "1", "2", "3", "4", "5", "6", "7", "8", "9">>[(n % 10) + 1]
  IN  IF n < 10 THEN <<digit>> ELSE Append(ToChars(n \div 10), digit)

\* String.prototype.startsWith.
StartsWith(chars, prefix) ==
  /\ Len(chars) >= Len(prefix)
  /\ SubSeq(chars, 1, Len(prefix)) = prefix

ID_PREFIX == <<"I", "D", "_">>

\* entityMap.get(entityId): the last metadata entity with that id, with
\* code: entity.code || undefined; NotComputed when there is none.
EntityMapGet(metadata, entityId) ==
  LET hits == {k \in 1..Len(metadata) : metadata[k].id = entityId}
  IN  IF hits = {} THEN NotComputed
      ELSE LET entity == metadata[CHOOSE k \in hits : \A h \in hits : h <= k]
           IN  Computed([name |-> entity.name,
                         code |-> IF Truthy(entity.code) THEN entity.code
                                                         ELSE NullCode])

\* Position of entityId in the insertion-ordered entityLatestData, or 0.
LatestIndex(latest, entityId) ==
  IF \E k \in 1..Len(latest) : latest[k].entityId = entityId
    THEN CHOOSE k \in 1..Len(latest) : latest[k].entityId = entityId
    ELSE 0

\* Mutation: a data point of an equal year replaces the kept one.
GroupPointLastWins(latest, point) ==
  LET k == LatestIndex(latest, point.entity)
      kept == [entityId |-> point.entity, year |-> point.year,
               value |-> point.value]
  IN  IF k = 0 THEN Append(latest, kept)
      ELSE IF point.year >= latest[k].year THEN [latest EXCEPT ![k] = kept]
      ELSE latest

\* Mutation: the first data point of an entity is never replaced.
GroupPointFirstSeen(latest, point) ==
  LET k == LatestIndex(latest, point.entity)
      kept == [entityId |-> point.entity, year |-> point.year,
               value |-> point.value]
  IN  IF k = 0 THEN Append(latest, kept) ELSE latest

\* One iteration of the grouping loop:
\* if (!existing || year > existing.year) entityLatestData.set(...).
GroupPoint(latest, point) ==
  LET k == LatestIndex(latest, point.entity)
      kept == [entityId |-> point.entity, year |-> point.year,
               value |-> point.value]
  IN  IF k = 0 THEN Append(latest, kept)
      ELSE IF point.year > latest[k].year THEN [latest EXCEPT ![k] = kept]
      ELSE latest

\* The .map callback: null for an unknown entity id, else the record with
\* code: entity.code || `ID_${entityId}`.
ToCountry(metadata, kept) ==
  LET entity == EntityMapGet(metadata, kept.entityId)
  IN  IF entity.isNull THEN NotComputed
      ELSE Computed([code |-> IF Truthy(entity.data.code)
                                THEN entity.data.code.data
                                ELSE ID_PREFIX \o ToChars(kept.entityId),
                     name |-> entity.data.name,
                     intensity |-> kept.value,
                     year |-> kept.year])

\* Mutation: the length of the code is not looked at.
IsCountryCodeAnyLength(code) ==
  /\ code # <<>>
  /\ ~StartsWith(code, ID_PREFIX)

\* item.code && !item.code.startsWith('ID_') && item.code.length === 3
IsCountryCode(code) ==
  /\ code # <<>>
  /\ ~StartsWith(code, ID_PREFIX)
  /\ Len(code) = 3

\* Array.prototype.sort((a, b) => b.intensity - a.intensity): stable.
RECURSIVE SortByIntensityDesc(_)
SortByIntensityDesc(items) ==
  IF items = <<>> THEN <<>>
  ELSE LET sorted == SortByIntensityDesc(SubSeq(items, 1, Len(items) - 1))
           item == items[Len(items)]
           before == {k \in 1..Len(sorted) : sorted[k].intensity >= item.intensity}
           n == IF before = {} THEN 0
                ELSE CHOOSE k \in before : \A h \in before : h <= k
       IN  SubSeq(sorted, 1, n) \o <<item>> \o SubSeq(sorted, n + 1, Len(sorted))

\* The conversion of entityLatestData into the sorted country list.
Countries(metadata, latest) ==
  LET mapped == [k \in 1..Len(latest) |-> ToCountry(metadata, latest[k])]
      known == SelectSeq(mapped, LAMBDA item : ~item.isNull)
      items == [k \in 1..Len(known) |-> known[k].data]
  IN  SortByIntensityDesc(SelectSeq(items, LAMBDA item : IsCountryCode(item.code)))

UndefinedNumber == [k |-> "undefined", n |-> 0, d |-> 1]

\* countries.length > 0 ? totalIntensity / countries.length : undefined
GlobalAverage(countries) ==
  IF Len(countries) > 0
    THEN Div(SumSeq([k \in 1..Len(countries) |-> I(countries[k].intensity)]),
             I(Len(countries)))
    ELSE UndefinedNumber

\* The record fetchCarbonIntensityData resolves to (its clock-read timestamp
\* and the descriptive metadata strings are left out).
CarbonIntensityDataOf(metadata, latest) ==
  LET countries == Countries(metadata, latest)
  IN  [globalAverage |-> GlobalAverage(countries), countries |-> countries]

\* Data points of the dataset: data.entities[i], data.years[i], data.values[i].
EntityIds == {1, 2}
Years == {2021, 2023}
Values == {100, 300}
OwidPoints == [entity : EntityIds, year : Years, value : Values]
OwidDataInputs == SeqsUpTo(OwidPoints, MaxPoints)

\* Metadata of entity 1: a country, an entity without code, a two-letter
\* code, or the three characters "ID_".
Entity1Inputs ==
  {[id |-> 1, name |-> "United States", code |-> c] :
     c \in {Code(<<"U", "S", "A">>), NullCode, Code(<<"E", "U">>), Code(ID_PREFIX)}}

\* Metadata of entity 2: a country, an empty code, or an aggregate's code.
Entity2Inputs ==
  {[id |-> 2, name |-> "Germany", code |-> c] :
     c \in {Code(<<"D", "E", "U">>), Code(<<>>),
            Code(<<"O", "W", "I", "D", "_", "W", "R", "L">>)}}

\* metadata.dimensions.entities.values: each entity present or not.
MetadataInputs ==
  {<<>>} \cup {<<e>> : e \in Entity1Inputs \cup Entity2Inputs}
         \cup {<<e1, e2>> : e1 \in Entity1Inputs, e2 \in Entity2Inputs}

\* Both OWID requests have resolved; the grouping loop is about to start.
InitCarbon ==
  /\ owidData \in OwidDataInputs
  /\ owidMetadata \in MetadataInputs
  /\ owidIndex = 1
  /\ entityLatestData = <<>>
  /\ carbonIntensityData = NotComputed
  /\ DashIdle /\ AggIdle /\ DecIdle /\ RestIdle

\* One iteration of for (let i = 0; i < data.values.length; i++).
GroupStep ==
  /\ carbonIntensityData = NotComputed
  /\ owidIndex <= Len(owidData)
  /\ entityLatestData' = GroupPoint(entityLatestData, owidData[owidIndex])
  /\ owidIndex' = owidIndex + 1
  /\ UNCHANGED <<owidData, owidMetadata, carbonIntensityData,
                 dashVars, aggVars, decVars, restVars>>

\* After the loop: map, filter, sort, average, return.
Resolve ==
  /\ carbonIntensityData = NotComputed
  /\ owidIndex > Len(owidData)
  /\ carbonIntensityData' =
       Computed(CarbonIntensityDataOf(owidMetadata, entityLatestData))
  /\ UNCHANGED <<owidData, owidMetadata, owidIndex, entityLatestData,
                 dashVars, aggVars, decVars, restVars>>

NextCarbon == GroupStep \/ Resolve

SpecCarbon == InitCarbon /\ [][NextCarbon]_vars

-----------------------------------------------------------------------------
(* The carbon-intensity resolver, stated from its inputs.                   *)

\* Indices of the data points of entity e among the first n.
PointsOf(e, n) == {k \in 1..n : k <= Len(owidData) /\ owidData[k].entity = e}

\* Indices of the data points of e, among the first n, having e's maximum year.
MaxYearPoints(e, n) ==
  {k \in PointsOf(e, n) : \A h \in PointsOf(e, n) : owidData[h].year <= owidData[k].year}

FirstMaxYearPoint(e, n) ==
  owidData[CHOOSE k \in MaxYearPoints(e, n) : \A h \in MaxYearPoints(e, n) : k <= h]

LastMaxYearPoint(e, n) ==
  owidData[CHOOSE k \in MaxYearPoints(e, n) : \A h \in MaxYearPoints(e, n) : h <= k]

Resolved == ~carbonIntensityData.isNull
ResolvedCountries == carbonIntensityData.data.countries

\* The entries of the country list that stem from entity e (the metadata
\* drawn gives each entity its own name).
EntriesOf(e) ==
  {k \in 1..Len(ResolvedCountries) :
     /\ ~EntityMapGet(owidMetadata, e).isNull
     /\ ResolvedCountries[k].name = EntityMapGet(owidMetadata, e).data.name}

HasMetadata(e) == \E k \in 1..Len(owidMetadata) : owidMetadata[k].id = e

MetadataCode(e) == (CHOOSE entity \in {owidMetadata[k] : k \in 1..Len(owidMetadata)} :
                      entity.id = e).code

\* C13: at every point of the grouping loop, entityLatestData holds for each
\* entity seen so far exactly one record, whose year is the maximum year of
\* the entity's data points seen so far and whose value is that of the first
\* of them having that year (an equal year does not replace).
C13_KeepsFirstOfMaxYear ==
  \A e \in EntityIds :
    LET n == owidIndex - 1
        kept == {k \in 1..Len(entityLatestData) : entityLatestData[k].entityId = e}
    IN  IF PointsOf(e, n) = {}
          THEN kept = {}
          ELSE /\ Cardinality(kept) = 1
               /\ \A k \in kept :
                    /\ entityLatestData[k].year = FirstMaxYearPoint(e, n).year
                    /\ entityLatestData[k].value = FirstMaxYearPoint(e, n).value
                    /\ \A h \in PointsOf(e, n) :
                         owidData[h].year <= entityLatestData[k].year

\* Scenario D: years 2021 and 2023 of one entity, the 2023 value is kept; and
\* a third point of 2023 with another value has not replaced it.
C13_Witness ==
  /\ Len(owidData) = 3 /\ owidIndex = 4
  /\ \A k \in 1..3 : owidData[k].entity = 1
  /\ owidData[1].year = 2021 /\ owidData[2].year = 2023 /\ owidData[3].year = 2023
  /\ owidData[1].value = 100 /\ owidData[2].value = 300 /\ owidData[3].value = 100
  /\ entityLatestData = <<[entityId |-> 1, year |-> 2023, value |-> 300]>>

\* C14 as stated: every emitted CountryIntensity record carries the intensity
\* of the last data point, in input order, having the entity's maximum year.
C14_LastOfMaxYearWins ==
  Resolved =>
    \A e \in EntityIds : \A k \in EntriesOf(e) :
      /\ ResolvedCountries[k].year = LastMaxYearPoint(e, Len(owidData)).year
      /\ ResolvedCountries[k].intensity = LastMaxYearPoint(e, Len(owidData)).value

\* C14 (amended): every emitted CountryIntensity record carries the year and
\* the intensity of the first data point, in input order, having the
\* entity's maximum year.
C14_FirstOfMaxYearWins ==
  Resolved =>
    \A e \in EntityIds : \A k \in EntriesOf(e) :
      /\ ResolvedCountries[k].year = FirstMaxYearPoint(e, Len(owidData)).year
      /\ ResolvedCountries[k].intensity = FirstMaxYearPoint(e, Len(owidData)).value

\* Two data points of one country share its maximum year and differ in value;
\* the emitted record has the value of the first.
C14_Witness ==
  /\ Resolved
  /\ \E e \in EntityIds : \E k \in EntriesOf(e) :
       /\ Cardinality(MaxYearPoints(e, Len(owidData))) = 2
       /\ FirstMaxYearPoint(e, Len(owidData)).value
            # LastMaxYearPoint(e, Len(owidData)).value
       /\ ResolvedCountries[k].intensity = FirstMaxYearPoint(e, Len(owidData)).value

\* C15 as stated: an entity has an entry exactly when it has a data point, a
\* metadata entry and a code of exactly 3 characters; an entity id without
\* metadata is skipped (the resolution still yields its list); every emitted
\* code has length 3.
C15_ThreeCharacterCodes ==
  Resolved =>
       /\ \A e \in EntityIds :
            (EntriesOf(e) # {}) <=>
              /\ PointsOf(e, Len(owidData)) # {}
              /\ HasMetadata(e)
              /\ ~MetadataCode(e).isNull
              /\ Len(MetadataCode(e).data) = 3
       /\ \A k \in 1..Len(ResolvedCountries) : Len(ResolvedCountries[k].code) = 3

\* C15 (amended): an entity has exactly one entry when it has a data point, a
\* metadata entry and a code of exactly 3 characters that does not start with
\* "ID_", and none otherwise; an entity id without metadata is skipped (the
\* resolution still yields its list); every emitted code is the entity's and
\* has length 3.
C15_CountryCodesOnly ==
  Resolved =>
       /\ \A e \in EntityIds :
            IF /\ PointsOf(e, Len(owidData)) # {}
               /\ HasMetadata(e)
               /\ ~MetadataCode(e).isNull
               /\ Len(MetadataCode(e).data) = 3
               /\ ~StartsWith(MetadataCode(e).data, ID_PREFIX)
              THEN /\ Cardinality(EntriesOf(e)) = 1
                   /\ \A k \in EntriesOf(e) :
                        ResolvedCountries[k].code = MetadataCode(e).data
              ELSE EntriesOf(e) = {}
       /\ \A k \in 1..Len(ResolvedCountries) : Len(ResolvedCountries[k].code) = 3
       /\ Len(ResolvedCountries)
            = Cardinality({e \in EntityIds : EntriesOf(e) # {}})

\* Entity 2 has a data point and no metadata entry, entity 1 is a country:
\* the resolution ends with the one country.
C15_Witness ==
  /\ Resolved
  /\ PointsOf(2, Len(owidData)) # {} /\ ~HasMetadata(2)
  /\ PointsOf(1, Len(owidData)) # {}
  /\ Len(ResolvedCountries) = 1
  /\ ResolvedCountries[1].code = <<"U", "S", "A">>

-----------------------------------------------------------------------------
(* The Grafana frame decoder (fetcher/src/clients/nodely.ts).               *)
(* A cell is a JSON value: a number, a string (the sequence of its          *)
(* characters), null, or undefined for what an array or a row does not hold.*)

\* Most field names, and most cells of a value array, drawn for a frame.
MaxFields == 2
MaxRows == 2

NumCell(n) == [t |-> "number", n |-> n, s |-> <<>>]
StrCell(chars) == [t |-> "string", n |-> 0, s |-> chars]
NullCell == [t |-> "null", n |-> 0, s |-> <<>>]
UndefinedCell == [t |-> "undefined", n |-> 0, s |-> <<>>]

\* What a call returns, or that it threw.
Thrown == [threw |-> TRUE, rows |-> <<>>]
Returned(rows) == [threw |-> FALSE, rows |-> rows]

\* response.results?.A?.frames?.[0]
getFirstFrame(resp) ==
  IF resp.hasResults /\ Len(resp.frames) > 0
    THEN Computed(resp.frames[1])
    ELSE NotComputed

\* array[index] of JavaScript, with index counted from 1.
At(array, index) == IF index <= Len(array) THEN array[index] ELSE UndefinedCell

\* buildRow throws a TypeError when it reads values[col][rowIndex] of a
\* column that values does not have.
buildRowThrows(fields, values) == \E col \in 1..Len(fields) : col > Len(values)

\* Mutation: each field takes the cell of the first row.
buildRowFirstCell(fields, values, rowIndex) ==
  [name \in {fields[col] : col \in 1..Len(fields)} |->
     LET col == CHOOSE c \in 1..Len(fields) :
                  /\ fields[c] = name
                  /\ \A h \in 1..Len(fields) : fields[h] = name => h <= c
     IN  At(values[col], 1)]

\* buildRow: row[fields[col].name] = values[col][rowIndex] for col ascending,
\* so a later field of the same name overwrites an earlier one.
buildRow(fields, values, rowIndex) ==
  [name \in {fields[col] : col \in 1..Len(fields)} |->
     LET col == CHOOSE c \in 1..Len(fields) :
                  /\ fields[c] = name
                  /\ \A h \in 1..Len(fields) : fields[h] = name => h <= c
     IN  At(values[col], rowIndex)]

\* row[name]: undefined for a property the row does not have.
RowGet(row, name) == IF name \in DOMAIN row THEN row[name] ELSE UndefinedCell

\* Mutation: the field list is compared with the value arrays before the
\* rows are counted.
parseGrafanaResponseStrict(resp) ==
  LET frame == getFirstFrame(resp)
  IN  IF frame.isNull THEN Returned(<<>>)
      ELSE LET fields == frame.data.fields
               values == frame.data.values
               rowCount == IF Len(values) > 0 THEN Len(values[1]) ELSE 0
           IN  IF buildRowThrows(fields, values)
                 THEN Thrown
                 ELSE Returned([i \in 1..rowCount |-> buildRow(fields, values, i)])

\* parseGrafanaResponse: no frame gives no rows; rowCount is
\* values[0]?.length ?? 0; one buildRow per row index.
parseGrafanaResponse(resp) ==
  LET frame == getFirstFrame(resp)
  IN  IF frame.isNull THEN Returned(<<>>)
      ELSE LET fields == frame.data.fields
               values == frame.data.values
               rowCount == IF Len(values) > 0 THEN Len(values[1]) ELSE 0
           IN  IF rowCount > 0 /\ buildRowThrows(fields, values)
                 THEN Thrown
                 ELSE Returned([i \in 1..rowCount |-> buildRow(fields, values, i)])

\* Frames: any field list with any value arrays, rectangular or not.
FieldNames == {"ts", "node_cnt"}
DecoderCells == {NumCell(1), NumCell(2)}
FieldLists == SeqsUpTo(FieldNames, MaxFields)
ValueArrays == SeqsUpTo(DecoderCells, MaxRows)
FrameInputs == [fields : FieldLists, values : SeqsUpTo(ValueArrays, MaxFields)]

\* A frame that is never the first one.
OtherFrame == [fields |-> <<"other">>, values |-> <<<<NumCell(2)>>>>]

OneFrame(frame) == [hasResults |-> TRUE, frames |-> <<frame>>]

\* The responses a frame is drawn into: no result set, no frame, the frame
\* alone, the frame followed by another one.
ResponsesWith(frame) ==
  {NoResults, [hasResults |-> TRUE, frames |-> <<>>], OneFrame(frame),
   [hasResults |-> TRUE, frames |-> <<frame, OtherFrame>>]}

\* A validated response is about to be decoded.
InitDecoder ==
  /\ \E frame \in FrameInputs : response \in ResponsesWith(frame)
  /\ decoded = NotComputed
  /\ DashIdle /\ OwidIdle /\ AggIdle /\ RestIdle

\* The call parseGrafanaResponse(response).
Decode ==
  /\ decoded = NotComputed
  /\ decoded' = Computed(parseGrafanaResponse(response))
  /\ UNCHANGED <<response, dashVars, owidVars, aggVars, restVars>>

NextDecoder == Decode

SpecDecoder == InitDecoder /\ [][NextDecoder]_vars

\* The first frame of the response decoded, when there is one.
Frame == response.frames[1]
HasFrame == response.hasResults /\ Len(response.frames) > 0

\* F field names and F value arrays, each of length R (F >= 1: without a
\* value array there is no length R to speak of).
Rectangular(F, R) ==
  /\ HasFrame
  /\ Len(Frame.fields) = F /\ Len(Frame.values) = F
  /\ \A col \in 1..F : Len(Frame.values[col]) = R

DistinctFields ==
  \A c, h \in 1..Len(Frame.fields) : Frame.fields[c] = Frame.fields[h] => c = h

\* C20 as stated: for a frame with F field names and F value arrays each of
\* length R, the decoder returns exactly R rows in row-index order, and row i
\* maps every field name f_j to values[j][i].
C20_RowsOfRectangularFrame ==
  \A F \in 1..MaxFields, R \in 0..MaxRows :
    (Rectangular(F, R) /\ ~decoded.isNull) =>
      /\ ~decoded.data.threw
      /\ Len(decoded.data.rows) = R
      /\ \A i \in 1..R : \A j \in 1..F :
           RowGet(decoded.data.rows[i], Frame.fields[j]) = Frame.values[j][i]

\* C20 (amended): for such a frame the decoder returns exactly R rows in
\* row-index order; the properties of row i are the field names, and row i
\* maps the name f_j to values[j'][i], j' being the last field of that name
\* (so to values[j][i] when the field names are distinct).
C20_RowsLastFieldWins ==
  \A F \in 1..MaxFields, R \in 0..MaxRows :
    (Rectangular(F, R) /\ ~decoded.isNull) =>
      /\ ~decoded.data.threw
      /\ Len(decoded.data.rows) = R
      /\ \A i \in 1..R :
           /\ DOMAIN decoded.data.rows[i] = {Frame.fields[j] : j \in 1..F}
           /\ \A j \in 1..F :
                (\A h \in (j + 1)..F : Frame.fields[h] # Frame.fields[j]) =>
                  decoded.data.rows[i][Frame.fields[j]] = Frame.values[j][i]

\* Two distinct fields, two rows, four cells that tell rows and columns apart.
C20_Witness ==
  /\ Rectangular(2, 2) /\ DistinctFields /\ ~decoded.isNull
  /\ Frame.values[1] = <<NumCell(1), NumCell(2)>>
  /\ Frame.values[2] = <<NumCell(2), NumCell(1)>>
  /\ Len(decoded.data.rows) = 2
  /\ decoded.data.rows[2][Frame.fields[1]] = NumCell(2)
  /\ decoded.data.rows[2][Frame.fields[2]] = NumCell(1)

-----------------------------------------------------------------------------
(* The node aggregator (fetcher/src/clients/node-data.ts).                  *)

\* Most rows drawn for the historical node-count frame.
MaxHist == 3

RELAY_NODES == 78
ARCHIVER_NODES == 19

Digits == <<"0", "1", "2", "3", "4", "5", "6", "7", "8", "9">>
IsDigit(ch) == \E v \in 1..10 : Digits[v] = ch
DigitValue(ch) == (CHOOSE v \in 1..10 : Digits[v] = ch) - 1

\* Value of a non-empty sequence of decimal digits.
RECURSIVE ParseDigits(_)
ParseDigits(chars) ==
  IF Len(chars) = 1 THEN DigitValue(chars[1])
  ELSE 10 * ParseDigits(SubSeq(chars, 1, Len(chars) - 1)) + DigitValue(chars[Len(chars)])

AllDigits(chars) == chars # <<>> /\ \A k \in 1..Len(chars) : IsDigit(chars[k])

\* Number(string) for the strings a count arrives as: the empty string is 0,
\* an optionally signed run of digits is its value, anything else is NaN.
StringToNumber(chars) ==
  IF chars = <<>> THEN I(0)
  ELSE IF AllDigits(chars) THEN I(ParseDigits(chars))
  ELSE IF chars[1] = "-" /\ AllDigits(Tail(chars)) THEN I(-ParseDigits(Tail(chars)))
  ELSE NaN

\* Number(value)
ToNumber(cell) ==
  CASE cell.t = "number" -> I(cell.n)
    [] cell.t = "string" -> StringToNumber(cell.s)
    [] cell.t = "null" -> I(0)
    [] cell.t = "undefined" -> NaN

\* a || fallback, for a number a: 0 and NaN are falsy.
OrDefault(a, fallback) ==
  IF a.k = "nan" \/ (a.k = "num" /\ a.n = 0) THEN fallback ELSE a

\* a < b
Lt(a, b) == Gt(b, a)

DEFAULT_NODE_TYPES ==
  [apiNodes |-> I(0), validators |-> I(0),
   relays |-> I(RELAY_NODES), archivers |-> I(ARCHIVER_NODES)]

\* Mutation: relays and archivers fall back to 0 as the other two do.
parseNodeTypesZeroDefaults(rows) ==
  IF Len(rows) = 0 THEN DEFAULT_NODE_TYPES
  ELSE LET firstRow == rows[1]
       IN  [apiNodes |-> OrDefault(ToNumber(RowGet(firstRow, "apiNodes")), I(0)),
            validators |-> OrDefault(ToNumber(RowGet(firstRow, "validators")), I(0)),
            relays |-> OrDefault(ToNumber(RowGet(firstRow, "relays")), I(0)),
            archivers |-> OrDefault(ToNumber(RowGet(firstRow, "archivers")), I(0))]

\* parseNodeTypes, applied to rows = parseGrafanaResponse(response).
parseNodeTypes(rows) ==
  IF Len(rows) = 0 THEN DEFAULT_NODE_TYPES
  ELSE LET firstRow == rows[1]
       IN  [apiNodes |-> OrDefault(ToNumber(RowGet(firstRow, "apiNodes")), I(0)),
            validators |-> OrDefault(ToNumber(RowGet(firstRow, "validators")), I(0)),
            relays |-> OrDefault(ToNumber(RowGet(firstRow, "relays")), I(RELAY_NODES)),
            archivers |-> OrDefault(ToNumber(RowGet(firstRow, "archivers")),
                                    I(ARCHIVER_NODES))]

MS_PER_DAY == 86400000

TwoDigits(n) == <<Digits[(n \div 10) + 1], Digits[(n % 10) + 1]>>

\* The UTC calendar date of a millisecond timestamp, for the timestamps
\* within 24 days of the epoch (the ones a 32-bit integer holds).
EpochDate(ms) ==
  LET day == ms \div MS_PER_DAY
  IN  IF day >= 0
        THEN <<"1", "9", "7", "0", "-", "0", "1", "-">> \o TwoDigits(day + 1)
        ELSE <<"1", "9", "6", "9", "-", "1", "2", "-">> \o TwoDigits(32 + day)

\* An ISO 8601 date, alone or followed by a UTC time: YYYY-MM-DD[Thh:mm:ssZ].
\* Days 29 to 31, whose validity depends on the month, are never drawn.
IsIsoDate(chars) ==
  /\ Len(chars) \in {10, 20}
  /\ \A k \in {1, 2, 3, 4, 6, 7, 9, 10} : IsDigit(chars[k])
  /\ chars[5] = "-" /\ chars[8] = "-"
  /\ ParseDigits(SubSeq(chars, 6, 7)) \in 1..12
  /\ ParseDigits(SubSeq(chars, 9, 10)) \in 1..28
  /\ Len(chars) = 20 =>
       /\ chars[11] = "T" /\ chars[14] = ":" /\ chars[17] = ":" /\ chars[20] = "Z"
       /\ \A k \in {12, 13, 15, 16, 18, 19} : IsDigit(chars[k])
       /\ ParseDigits(SubSeq(chars, 12, 13)) \in 0..23
       /\ ParseDigits(SubSeq(chars, 15, 16)) \in 0..59
       /\ ParseDigits(SubSeq(chars, 18, 19)) \in 0..59

\* new Date(ts).toISOString().split('T')[0], or NullCode when
\* isNaN(date.getTime()).
DateOf(ts) ==
  CASE ts.t = "number" -> Code(EpochDate(ts.n))
    [] ts.t = "string" -> IF IsIsoDate(ts.s) THEN Code(SubSeq(ts.s, 1, 10))
                                             ELSE NullCode

\* row.node_cnt ?? 0
NodeCntOrZero(cell) == IF cell.t \in {"null", "undefined"} THEN NumCell(0) ELSE cell

\* Mutation: a row whose timestamp is no date is kept, dated "Invalid Date".
RECURSIVE parseHistoricalDataKeepsInvalid(_)
parseHistoricalDataKeepsInvalid(rows) ==
  IF Len(rows) = 0 THEN <<>>
  ELSE LET row == rows[Len(rows)]
           ts == RowGet(row, "ts")
           before == parseHistoricalDataKeepsInvalid(SubSeq(rows, 1, Len(rows) - 1))
       IN  IF ts.t \notin {"string", "number"} THEN before
           ELSE Append(before,
                  [date |-> IF DateOf(ts).isNull
                              THEN <<"I", "n", "v", "a", "l", "i", "d", " ",
                                     "D", "a", "t", "e">>
                              ELSE DateOf(ts).data,
                   nodeCount |-> ToNumber(NodeCntOrZero(RowGet(row, "node_cnt")))])

\* parseHistoricalData, applied to rows = parseGrafanaResponse(response):
\* a flatMap that yields nothing for a row whose ts is neither a string nor a
\* number or is no date, and one {date, nodeCount} otherwise.
RECURSIVE parseHistoricalData(_)
parseHistoricalData(rows) ==
  IF Len(rows) = 0 THEN <<>>
  ELSE LET row == rows[Len(rows)]
           ts == RowGet(row, "ts")
           before == parseHistoricalData(SubSeq(rows, 1, Len(rows) - 1))
       IN  IF ts.t \notin {"string", "number"} THEN before
           ELSE IF DateOf(ts).isNull THEN before
           ELSE Append(before,
                  [date |-> DateOf(ts).data,
                   nodeCount |-> ToNumber(NodeCntOrZero(RowGet(row, "node_cnt")))])

API_NODES_NEGATIVE == "API nodes count is negative"
VALIDATORS_EXCEED_TOTAL == "Validator count exceeds total nodes"
NEGATIVE_COUNTS == "One or more node type counts are negative."

\* anomalies.push(message) when the condition holds.
PushIf(anomalies, condition, message) ==
  IF condition THEN Append(anomalies, message) ELSE anomalies

\* Mutation: validators are compared with the API node count.
detectNodeAnomaliesAgainstApiNodes(nodeTypes, totalNodes) ==
  LET a1 == PushIf(<<>>, Lt(nodeTypes.apiNodes, I(0)), API_NODES_NEGATIVE)
      a2 == PushIf(a1, Gt(nodeTypes.validators, nodeTypes.apiNodes),
                   VALIDATORS_EXCEED_TOTAL)
  IN  PushIf(a2, \/ Lt(nodeTypes.validators, I(0))
                 \/ Lt(nodeTypes.relays, I(0))
                 \/ Lt(nodeTypes.archivers, I(0)),
             NEGATIVE_COUNTS)

\* Mutation: validators are compared with the count of the other nodes.
detectNodeAnomaliesAgainstOthers(nodeTypes, totalNodes) ==
  LET a1 == PushIf(<<>>, Lt(nodeTypes.apiNodes, I(0)), API_NODES_NEGATIVE)
      a2 == PushIf(a1, Gt(nodeTypes.validators,
                          Minus(totalNodes, nodeTypes.validators)),
                   VALIDATORS_EXCEED_TOTAL)
  IN  PushIf(a2, \/ Lt(nodeTypes.validators, I(0))
                 \/ Lt(nodeTypes.relays, I(0))
                 \/ Lt(nodeTypes.archivers, I(0)),
             NEGATIVE_COUNTS)

\* detectNodeAnomalies: the three conditions, in order.
detectNodeAnomalies(nodeTypes, totalNodes) ==
  LET a1 == PushIf(<<>>, Lt(nodeTypes.apiNodes, I(0)), API_NODES_NEGATIVE)
      a2 == PushIf(a1, Gt(nodeTypes.validators, totalNodes), VALIDATORS_EXCEED_TOTAL)
  IN  PushIf(a2, \/ Lt(nodeTypes.validators, I(0))
                 \/ Lt(nodeTypes.relays, I(0))
                 \/ Lt(nodeTypes.archivers, I(0)),
             NEGATIVE_COUNTS)

Rejected == [rejected |-> TRUE, value |-> <<>>]
Fulfilled(value) == [rejected |-> FALSE, value |-> value]

\* Mutation: totalNodes leaves the archivers out.
fetchAllNodeDataNoArchivers(typeResponse, countResponse, ts) ==
  LET types == parseGrafanaResponse(typeResponse)
      counts == parseGrafanaResponse(countResponse)
  IN  IF types.threw \/ counts.threw THEN Rejected
      ELSE LET nodeTypes == parseNodeTypes(types.rows)
               historicalData == parseHistoricalData(counts.rows)
               totalNodes == Add(Add(nodeTypes.apiNodes, nodeTypes.validators),
                                 nodeTypes.relays)
           IN  Fulfilled(
                 [data |-> [timestamp |-> ts,
                            totalNodes |-> totalNodes,
                            validators |-> nodeTypes.validators,
                            relays |-> nodeTypes.relays,
                            archivers |-> nodeTypes.archivers,
                            apiNodes |-> nodeTypes.apiNodes,
                            historicalData |->
                              IF Len(historicalData) > 0 THEN Computed(historicalData)
                                                         ELSE NotComputed],
                  anomalies |-> detectNodeAnomalies(nodeTypes, totalNodes)])

\* fetchAllNodeData(timestamp), given what its two requests resolved to; an
\* exception of the decoder rejects the promise.
fetchAllNodeData(typeResponse, countResponse, ts) ==
  LET types == parseGrafanaResponse(typeResponse)
      counts == parseGrafanaResponse(countResponse)
  IN  IF types.threw \/ counts.threw THEN Rejected
      ELSE LET nodeTypes == parseNodeTypes(types.rows)
               historicalData == parseHistoricalData(counts.rows)
               totalNodes == Add(Add(Add(nodeTypes.apiNodes, nodeTypes.validators),
                                     nodeTypes.relays),
                                 nodeTypes.archivers)
           IN  Fulfilled(
                 [data |-> [timestamp |-> ts,
                            totalNodes |-> totalNodes,
                            validators |-> nodeTypes.validators,
                            relays |-> nodeTypes.relays,
                            archivers |-> nodeTypes.archivers,
                            apiNodes |-> nodeTypes.apiNodes,
                            historicalData |->
                              IF Len(historicalData) > 0 THEN Computed(historicalData)
                                                         ELSE NotComputed],
                  anomalies |-> detectNodeAnomalies(nodeTypes, totalNodes)])

\* A frame holding the given rows under the given field names; a field whose
\* cell is undefined in the first row is left out of the frame.
FrameOfRows(names, rowList) ==
  LET present == IF Len(rowList) = 0 THEN names
                 ELSE SelectSeq(names, LAMBDA f : rowList[1][f] # UndefinedCell)
  IN  [fields |-> present,
       values |-> [c \in 1..Len(present) |->
                     [r \in 1..Len(rowList) |-> rowList[r][present[c]]]]]

NODE_TYPE_FIELDS == <<"apiNodes", "validators", "relays", "archivers">>

\* First rows of the node-type frame: counts as numbers (positive, zero,
\* negative), as strings, null, or missing.
NodeTypeRows ==
  [apiNodes : {NumCell(403), NumCell(-597), StrCell(<<"a", "b", "c">>)},
   validators : {NumCell(500), NumCell(1000), NumCell(-5), StrCell(<<"1", "2">>)},
   relays : {NumCell(100), NumCell(0), NumCell(-3), UndefinedCell},
   archivers : {NumCell(25), NullCell, StrCell(<<>>)}]

\* A second row, which parseNodeTypes does not read.
SecondNodeTypeRow ==
  [apiNodes |-> NumCell(1), validators |-> NumCell(1),
   relays |-> NumCell(1), archivers |-> NumCell(1)]

NodeTypeResponseInputs ==
  {NoResults, OneFrame(FrameOfRows(NODE_TYPE_FIELDS, <<>>))}
    \cup {OneFrame(FrameOfRows(NODE_TYPE_FIELDS, <<row>>)) : row \in NodeTypeRows}
    \cup {OneFrame(FrameOfRows(NODE_TYPE_FIELDS, <<row, SecondNodeTypeRow>>)) :
            row \in {r \in NodeTypeRows :
                       r.relays = NumCell(100) /\ r.archivers = NumCell(25)}}

VALID_TS == <<"2", "0", "2", "4", "-", "0", "1", "-", "1", "5", "T",
              "1", "0", ":", "3", "0", ":", "0", "0", "Z">>
INVALID_TS == <<"n", "o", "t", "-", "a", "-", "d", "a", "t", "e">>

\* Rows of the historical frame: a timestamp that is an ISO string, a number
\* of milliseconds, a string that is no date, or null, with a count; and a
\* row whose count is null.
HistoryRows ==
  [ts : {StrCell(VALID_TS), NumCell(MS_PER_DAY), StrCell(INVALID_TS), NullCell},
   node_cnt : {NumCell(1000)}]
    \cup {[ts |-> StrCell(VALID_TS), node_cnt |-> NullCell]}

NodeCountResponseInputs ==
  {NoResults}
    \cup {OneFrame(FrameOfRows(<<"ts", "node_cnt">>, rowList)) :
            rowList \in SeqsUpTo(HistoryRows, MaxHist)}

\* Histories of at most one row, drawn with every node-type response.
ShortNodeCountResponseInputs ==
  {NoResults}
    \cup {OneFrame(FrameOfRows(<<"ts", "node_cnt">>, <<row>>)) : row \in HistoryRows}

\* Node-type responses drawn with every history: no row, and a plain row.
PlainNodeTypeResponseInputs ==
  {NoResults,
   OneFrame(FrameOfRows(NODE_TYPE_FIELDS,
                        <<[apiNodes |-> NumCell(403), validators |-> NumCell(500),
                           relays |-> NumCell(100), archivers |-> NumCell(25)]>>))}

Timestamps == {"2024-01-15T12:00:00.000Z"}

\* Both Grafana requests of fetchAllNodeData have resolved.  The node types
\* read one response and the history the other, so every node-type response
\* is drawn with the short histories and every history with the plain
\* node-type responses.
InitNodes ==
  /\ \/ /\ nodeTypeResponse \in NodeTypeResponseInputs
        /\ nodeCountResponse \in ShortNodeCountResponseInputs
     \/ /\ nodeTypeResponse \in PlainNodeTypeResponseInputs
        /\ nodeCountResponse \in NodeCountResponseInputs
  /\ timestamp \in Timestamps
  /\ nodeResult = NotComputed
  /\ DashIdle /\ OwidIdle /\ DecIdle /\ RestIdle

\* The rest of fetchAllNodeData: parse, sum, detect, return.
Aggregate ==
  /\ nodeResult = NotComputed
  /\ nodeResult' = Computed(fetchAllNodeData(nodeTypeResponse, nodeCountResponse,
                                             timestamp))
  /\ UNCHANGED <<nodeTypeResponse, nodeCountResponse, timestamp,
                 dashVars, owidVars, decVars, restVars>>

NextNodes == Aggregate

SpecNodes == InitNodes /\ [][NextNodes]_vars

-----------------------------------------------------------------------------
(* The node aggregator, stated from its inputs.                             *)

Aggregated == ~nodeResult.isNull /\ ~nodeResult.data.rejected
NodeDataOut == nodeResult.data.value.data
AnomaliesOut == nodeResult.data.value.anomalies

\* The rows the two responses decode to.
TypeRows == parseGrafanaResponse(nodeTypeResponse).rows
CountRows == parseGrafanaResponse(nodeCountResponse).rows

\* What a cell of the first node-type row has to come out as: a nonzero
\* number as itself, the string "12" as 12, and zero, null, a missing field,
\* the empty string and a non-numeric string as the fallback of the field.
ExpectedCount(cell, fallback) ==
  CASE cell.t = "number" /\ cell.n # 0 -> I(cell.n)
    [] cell = StrCell(<<"1", "2">>) -> I(12)
    [] OTHER -> fallback

\* C16: without a row the node types are {0, 0, 78, 19}; otherwise each field
\* of the first row is coerced to a number, relays and archivers fall back to
\* 78 and 19 and apiNodes and validators to 0 when the coerced value is zero
\* or NaN, and negative values pass through.
C16_ParseNodeTypes ==
  Aggregated =>
    IF Len(TypeRows) = 0
      THEN /\ NodeDataOut.apiNodes = I(0) /\ NodeDataOut.validators = I(0)
           /\ NodeDataOut.relays = I(78) /\ NodeDataOut.archivers = I(19)
      ELSE /\ NodeDataOut.apiNodes = ExpectedCount(RowGet(TypeRows[1], "apiNodes"), I(0))
           /\ NodeDataOut.validators
                = ExpectedCount(RowGet(TypeRows[1], "validators"), I(0))
           /\ NodeDataOut.relays = ExpectedCount(RowGet(TypeRows[1], "relays"), I(78))
           /\ NodeDataOut.archivers
                = ExpectedCount(RowGet(TypeRows[1], "archivers"), I(19))

\* A first row with a non-numeric apiNodes, a negative validators, no relays
\* field and a null archivers.
C16_Witness ==
  /\ Aggregated
  /\ Len(TypeRows) = 1
  /\ RowGet(TypeRows[1], "apiNodes") = StrCell(<<"a", "b", "c">>)
  /\ RowGet(TypeRows[1], "relays") = UndefinedCell
  /\ RowGet(TypeRows[1], "archivers") = NullCell
  /\ NodeDataOut.apiNodes = I(0) /\ NodeDataOut.validators = I(-5)
  /\ NodeDataOut.relays = I(78) /\ NodeDataOut.archivers = I(19)

\* C17: in every NodeData produced, totalNodes = apiNodes + validators +
\* relays + archivers.
C17_TotalIsSum ==
  Aggregated =>
    /\ \A f \in {"totalNodes", "apiNodes", "validators", "relays", "archivers"} :
         NodeDataOut[f].k = "num" /\ NodeDataOut[f].d = 1
    /\ NodeDataOut.totalNodes.n
         = NodeDataOut.apiNodes.n + NodeDataOut.validators.n
           + NodeDataOut.relays.n + NodeDataOut.archivers.n

\* A negative count and two defaulted ones: -597 + 1000 + 78 + 19 = 500.
C17_Witness ==
  /\ Aggregated
  /\ NodeDataOut.apiNodes = I(-597) /\ NodeDataOut.validators = I(1000)
  /\ RowGet(TypeRows[1], "relays") = NumCell(0)
  /\ RowGet(TypeRows[1], "archivers") = NullCell
  /\ NodeDataOut.totalNodes = I(500)

Has(anomalies, message) == \E k \in 1..Len(anomalies) : anomalies[k] = message
Count(condition) == IF condition THEN 1 ELSE 0

ApiNodesNegative == NodeDataOut.apiNodes.n < 0
ValidatorsExceedTotal == NodeDataOut.validators.n > NodeDataOut.totalNodes.n
SomeCountNegative ==
  \/ NodeDataOut.validators.n < 0
  \/ NodeDataOut.relays.n < 0
  \/ NodeDataOut.archivers.n < 0

\* C18: the anomaly list is non-empty exactly when apiNodes < 0, or
\* validators > totalNodes, or one of validators, relays, archivers is
\* negative; it holds one message per condition that is satisfied (the
\* validators-exceed-total message whenever validators > totalNodes).
C18_DetectAnomalies ==
  Aggregated =>
    /\ (Len(AnomaliesOut) > 0)
         <=> (ApiNodesNegative \/ ValidatorsExceedTotal \/ SomeCountNegative)
    /\ Len(AnomaliesOut) = Count(ApiNodesNegative) + Count(ValidatorsExceedTotal)
                           + Count(SomeCountNegative)
    /\ Has(AnomaliesOut, API_NODES_NEGATIVE) <=> ApiNodesNegative
    /\ Has(AnomaliesOut, VALIDATORS_EXCEED_TOTAL) <=> ValidatorsExceedTotal
    /\ Has(AnomaliesOut, NEGATIVE_COUNTS) <=> SomeCountNegative

\* Scenario C: validators = 1000 with totalNodes = 500.
C18_Witness ==
  /\ Aggregated
  /\ NodeDataOut.validators = I(1000) /\ NodeDataOut.totalNodes = I(500)
  /\ Has(AnomaliesOut, VALIDATORS_EXCEED_TOTAL)
  /\ Len(AnomaliesOut) = 2

\* The rows of the historical frame whose timestamp is a date: the ISO
\* string and the number of milliseconds.
ParseableRows ==
  {i \in 1..Len(CountRows) :
     \/ RowGet(CountRows[i], "ts").t = "number"
     \/ RowGet(CountRows[i], "ts") = StrCell(VALID_TS)}

\* The k-th parseable row, in input order.
KthParseable(k) ==
  CHOOSE i \in ParseableRows : Cardinality({h \in ParseableRows : h <= i}) = k

HistoryOut ==
  IF NodeDataOut.historicalData.isNull THEN <<>> ELSE NodeDataOut.historicalData.data

\* C19: parsing the historical rows never fails; a row whose timestamp is no
\* date is dropped, and the output holds exactly one {date, nodeCount} per
\* parseable row, in input order.
C19_ParseHistoricalData ==
  ~nodeResult.isNull =>
    /\ ~nodeResult.data.rejected
    /\ Len(HistoryOut) = Cardinality(ParseableRows)
    /\ \A k \in 1..Len(HistoryOut) :
         LET row == CountRows[KthParseable(k)]
         IN  /\ HistoryOut[k].date
                  = IF RowGet(row, "ts").t = "number"
                      THEN <<"1", "9", "7", "0", "-", "0", "1", "-", "0", "2">>
                      ELSE <<"2", "0", "2", "4", "-", "0", "1", "-", "1", "5">>
             /\ HistoryOut[k].nodeCount
                  = IF RowGet(row, "node_cnt") = NullCell THEN I(0) ELSE I(1000)

\* A parseable row, a row that is no date, a parseable row: two entries, in
\* the order of the rows.
C19_Witness ==
  /\ Aggregated
  /\ Len(CountRows) = 3
  /\ RowGet(CountRows[1], "ts") = StrCell(VALID_TS)
  /\ RowGet(CountRows[2], "ts") = StrCell(INVALID_TS)
  /\ RowGet(CountRows[3], "ts") = NumCell(MS_PER_DAY)
  /\ Len(HistoryOut) = 2
  /\ HistoryOut[1].date = <<"2", "0", "2", "4", "-", "0", "1", "-", "1", "5">>
  /\ HistoryOut[2].date = <<"1", "9", "7", "0", "-", "0", "1", "-", "0", "2">>

-----------------------------------------------------------------------------
(* The decoder on frames that are absent, empty or not rectangular.          *)

Decoded == ~decoded.isNull

\* C21: a response with no frame (no result set, or an empty frame list), or
\* whose frame has no value arrays, decodes to zero rows and does not throw.
C21_NoFrameNoRows ==
  (Decoded /\ (~HasFrame \/ Len(Frame.values) = 0)) =>
    /\ ~decoded.data.threw
    /\ Len(decoded.data.rows) = 0

\* A frame with two field names and no value array has been decoded.
C21_Witness ==
  /\ Decoded /\ HasFrame
  /\ Len(Frame.fields) = 2 /\ Len(Frame.values) = 0
  /\ ~decoded.data.threw /\ Len(decoded.data.rows) = 0

\* Fewer value arrays than field names, or value arrays of unequal length.
NonRectangular ==
  \/ Len(Frame.values) < Len(Frame.fields)
  \/ \E c, h \in 1..Len(Frame.values) : Len(Frame.values[c]) # Len(Frame.values[h])

\* C22: a frame that is not rectangular makes the decoder throw instead of
\* returning rows.
C22_NonRectangularThrows ==
  (Decoded /\ HasFrame /\ NonRectangular) => decoded.data.threw

-----------------------------------------------------------------------------
(* The node distribution (fetchNodesByCountry of the Nodely client).        *)

\* Most rows drawn for the node-distribution frame.
MaxGeoRows == 2

LowerCase == <<"a", "b", "c", "d", "e", "f", "g", "h", "i", "j", "k", "l", "m",
               "n", "o", "p", "q", "r", "s", "t", "u", "v", "w", "x", "y", "z">>
UpperCase == <<"A", "B", "C", "D", "E", "F", "G", "H", "I", "J", "K", "L", "M",
               "N", "O", "P", "Q", "R", "S", "T", "U", "V", "W", "X", "Y", "Z">>

\* String.prototype.toUpperCase, character by character.
ToUpperCase(chars) ==
  [k \in 1..Len(chars) |->
     IF \E v \in 1..26 : LowerCase[v] = chars[k]
       THEN UpperCase[CHOOSE v \in 1..26 : LowerCase[v] = chars[k]]
       ELSE chars[k]]

\* String(value ?? ''): null and undefined print as the empty string, a
\* natural number as its digits, a negative one with its sign.
StringOrEmpty(cell) ==
  CASE cell.t = "string" -> cell.s
    [] cell.t = "number" -> IF cell.n < 0 THEN <<"-">> \o ToChars(-cell.n)
                            ELSE ToChars(cell.n)
    [] cell.t = "null" -> <<>>
    [] cell.t = "undefined" -> <<>>

\* Number(value ?? 0): null and undefined count as 0.
NumberOrZero(cell) ==
  IF cell.t \in {"null", "undefined"} THEN I(0) ELSE ToNumber(cell)

\* rows.map((row) => ({ countryCode, nodeCount }))
ToNodeEntry(row) ==
  [countryCode |-> ToUpperCase(StringOrEmpty(RowGet(row, "c"))),
   nodeCount |-> NumberOrZero(RowGet(row, "nodes"))]

\* (item) => item.countryCode && item.nodeCount > 0
KeepNodeEntry(item) == item.countryCode # <<>> /\ Gt(item.nodeCount, I(0))

\* Array.prototype.sort((a, b) => b.nodeCount - a.nodeCount): stable.  It is
\* applied to counts that passed the filter, which are numbers.
RECURSIVE SortByNodeCountDesc(_)
SortByNodeCountDesc(items) ==
  IF items = <<>> THEN <<>>
  ELSE LET sorted == SortByNodeCountDesc(SubSeq(items, 1, Len(items) - 1))
           item == items[Len(items)]
           before == {k \in 1..Len(sorted) :
                        ~Gt(item.nodeCount, sorted[k].nodeCount)}
           n == IF before = {} THEN 0
                ELSE CHOOSE k \in before : \A h \in before : h <= k
       IN  SubSeq(sorted, 1, n) \o <<item>> \o SubSeq(sorted, n + 1, Len(sorted))

\* Mutation: the mapped rows are sorted without being filtered.
fetchNodesByCountryUnfiltered(resp, ts) ==
  LET parsed == parseGrafanaResponse(resp)
  IN  IF parsed.threw THEN Rejected
      ELSE LET mapped == [k \in 1..Len(parsed.rows) |-> ToNodeEntry(parsed.rows[k])]
               nodesByCountry ==
                 SortByNodeCountDesc(
                   SelectSeq(mapped, LAMBDA item : item.nodeCount.k = "num"))
           IN  Fulfilled([timestamp |-> ts,
                          nodesByCountry |-> nodesByCountry,
                          totalCountries |-> Len(nodesByCountry)])

\* fetchNodesByCountry once its Grafana request has resolved (the constant
\* metadata strings are left out).
fetchNodesByCountry(resp, ts) ==
  LET parsed == parseGrafanaResponse(resp)
  IN  IF parsed.threw THEN Rejected
      ELSE LET mapped == [k \in 1..Len(parsed.rows) |-> ToNodeEntry(parsed.rows[k])]
               nodesByCountry ==
                 SortByNodeCountDesc(SelectSeq(mapped, KeepNodeEntry))
           IN  Fulfilled([timestamp |-> ts,
                          nodesByCountry |-> nodesByCountry,
                          totalCountries |-> Len(nodesByCountry)])

GEO_FIELDS == <<"c", "nodes">>

\* Rows of the node-distribution frame: a code in lower or upper case, empty
\* or null; a count as a number (positive, zero, negative), as a string of
\* digits or not, null, or missing.
GeoRows ==
  [c : {StrCell(<<"u", "s">>), StrCell(<<"D", "E">>), StrCell(<<>>), NullCell},
   nodes : {NumCell(5), NumCell(9), NumCell(0), NumCell(-2),
            StrCell(<<"1", "2">>), StrCell(<<"x">>), NullCell, UndefinedCell}]

\* A frame with two fields and one value array, which the decoder rejects.
ShortGeoFrame == [fields |-> GEO_FIELDS, values |-> <<<<StrCell(<<"u", "s">>)>>>>]

\* The Grafana request of fetchNodesByCountry has resolved.
InitGeo ==
  /\ \/ \E rowList \in SeqsUpTo(GeoRows, MaxGeoRows) :
          geoResponse = OneFrame(FrameOfRows(GEO_FIELDS, rowList))
     \/ geoResponse \in {NoResults, OneFrame(ShortGeoFrame)}
  /\ geoTimestamp \in Timestamps
  /\ geographicalData = NotComputed
  /\ clock = 0 /\ firstRun = NotComputed /\ secondRun = NotComputed
  /\ DashIdle /\ OwidIdle /\ AggIdle /\ DecIdle /\ MainIdle /\ TableIdle

\* The rest of fetchNodesByCountry: decode, map, filter, sort, return.
FetchGeo ==
  /\ geographicalData = NotComputed
  /\ geographicalData' = Computed(fetchNodesByCountry(geoResponse, geoTimestamp))
  /\ UNCHANGED <<geoResponse, geoTimestamp, runVars, mainVars, tableVars,
                 dashVars, owidVars, aggVars, decVars>>

NextGeo == FetchGeo

SpecGeo == InitGeo /\ [][NextGeo]_vars

GeoFetched == ~geographicalData.isNull /\ ~geographicalData.data.rejected
NodesByCountry == geographicalData.data.value.nodesByCountry

\* C23: every list fetchNodesByCountry emits holds only entries with a
\* non-empty country code and a node count above zero, is ordered by node
\* count from the largest to the smallest, and totalCountries is its length.
C23_NodeDistributionList ==
  GeoFetched =>
    /\ \A k \in 1..Len(NodesByCountry) :
         /\ NodesByCountry[k].countryCode # <<>>
         /\ Gt(NodesByCountry[k].nodeCount, I(0))
    /\ \A k \in 1..(Len(NodesByCountry) - 1) :
         ~Gt(NodesByCountry[k + 1].nodeCount, NodesByCountry[k].nodeCount)
    /\ geographicalData.data.value.totalCountries = Len(NodesByCountry)

\* Two rows arrive in ascending order of count and are emitted reversed, the
\* lower-case code in upper case.
C23_Witness ==
  /\ GeoFetched
  /\ ~getFirstFrame(geoResponse).isNull
  /\ Len(getFirstFrame(geoResponse).data.values) = 2
  /\ getFirstFrame(geoResponse).data.values[2] = <<NumCell(5), StrCell(<<"1", "2">>)>>
  /\ getFirstFrame(geoResponse).data.values[1] = <<StrCell(<<"D", "E">>), StrCell(<<"u", "s">>)>>
  /\ NodesByCountry = <<[countryCode |-> <<"U", "S">>, nodeCount |-> I(12)],
                        [countryCode |-> <<"D", "E">>, nodeCount |-> I(5)]>>
  /\ geographicalData.data.value.totalCountries = 2

-----------------------------------------------------------------------------
(* The anomaly messages of the node aggregator, taken together.             *)

\* C28: the message "Validator count exceeds total nodes" is never the only
\* anomaly of an aggregated record: it comes with the negative-API-nodes
\* message or with the negative-counts message.
C28_ExceedTotalNeverAlone ==
  (Aggregated /\ Has(AnomaliesOut, VALIDATORS_EXCEED_TOTAL)) =>
    \/ Has(AnomaliesOut, API_NODES_NEGATIVE)
    \/ Has(AnomaliesOut, NEGATIVE_COUNTS)

\* 1000 validators exceed a total of 528 because apiNodes is -597.
C28_Witness ==
  /\ Aggregated
  /\ NodeDataOut.apiNodes = I(-597) /\ NodeDataOut.validators = I(1000)
  /\ NodeDataOut.relays = I(100) /\ NodeDataOut.archivers = I(25)
  /\ NodeDataOut.totalNodes = I(528)
  /\ AnomaliesOut = <<API_NODES_NEGATIVE, VALIDATORS_EXCEED_TOTAL>>

-----------------------------------------------------------------------------
(* The merge and the estimator, taken together.                             *)

\* C29: when the node counts and the weighted emissions have positive sums,
\* weightedAvgEmissionsIntensity is totalWeightedEmissions / totalNodes, and
\* for every row with a carbonIntensity relativeEmissions times that average
\* is the carbonIntensity, so that rows of equal intensity have equal
\* relativeEmissions whatever their node counts.
C29_MergeAgreesWithEstimator ==
  (HasMetrics /\ GeoTotal > 0 /\ WeightedTotal > 0) =>
    /\ M.weightedAvgEmissionsIntensity = Rat(WeightedTotal, GeoTotal)
    /\ \A i \in 1..Len(Rows) :
         ~IsNull(Rows[i].carbonIntensity) =>
           Mul(Rows[i].relativeEmissions, M.weightedAvgEmissionsIntensity)
             = Rows[i].carbonIntensity
    /\ \A i, j \in 1..Len(Rows) :
         (/\ ~IsNull(Rows[i].carbonIntensity)
          /\ Rows[i].carbonIntensity = Rows[j].carbonIntensity)
           => Rows[i].relativeEmissions = Rows[j].relativeEmissions

\* US 600 nodes at 400 and DE 400 nodes without a record: the average is 240
\* and the relativeEmissions of US is 400 / 240.
C29_Witness ==
  /\ HasMetrics
  /\ Len(Rows) = 2
  /\ Rows[1].carbonIntensity = I(400) /\ IsNull(Rows[2].carbonIntensity)
  /\ Rows[1].nodeCount = 600 /\ Rows[2].nodeCount = 400
  /\ Rows[1].relativeEmissions = Rat(5, 3)
  /\ M.weightedAvgEmissionsIntensity = I(240)

-----------------------------------------------------------------------------
(* The fetcher's main (fetcher/src/index.ts): one fetch cycle.              *)

\* The three sources, in the order main handles them, and their files.
SOURCES == <<"nodes", "carbonIntensity", "geographical">>
FILES == <<"nodes.json", "carbon-intensity.json", "geographical.json">>
METADATA_FILE == "metadata.json"

SourceIndex(source) == CHOOSE k \in 1..Len(SOURCES) : SOURCES[k] = source
FileOf(source) == FILES[SourceIndex(source)]

\* Mutation: a source that failed ends the cycle's handling of sources.
PcAfterStopsOnFailure(source, failed) ==
  IF failed \/ SourceIndex(source) = Len(SOURCES) THEN "metadata"
  ELSE SOURCES[SourceIndex(source) + 1]

\* Where main continues after the if/else of a source: at the next source,
\* or at the metadata record, whether the source failed or not.
PcAfter(source, failed) ==
  IF SourceIndex(source) = Len(SOURCES) THEN "metadata"
  ELSE SOURCES[SourceIndex(source) + 1]

\* The dataFreshness entry of a source, the clock-read stamp standing for
\* new Date().toISOString().
Freshness(status) ==
  [lastSuccessfulFetch |-> IF status = "fulfilled" THEN "now" ELSE "N/A",
   isStale |-> status = "rejected",
   hasError |-> status = "rejected"]

\* const metadata: Metadata = { ... }
MetadataOf(settled, errorLog) ==
  [dataFreshness |-> [source \in {SOURCES[k] : k \in 1..Len(SOURCES)} |->
                        Freshness(settled[source])],
   hasErrors |-> Len(errorLog) > 0,
   errors |-> errorLog]

\* main has been called; the three fetches are pending.
InitMain ==
  /\ results = <<>>
  /\ mainPc = "fetch"
  /\ errors = <<>>
  /\ writes = <<>>
  /\ fetchMetadata = NotComputed
  /\ exitCode = -1
  /\ DashIdle /\ OwidIdle /\ AggIdle /\ DecIdle
  /\ GeoFetchIdle /\ RunIdle /\ TableIdle

\* await Promise.allSettled([...]): each fetch fulfils or rejects.
Settle ==
  /\ mainPc = "fetch"
  /\ results' \in [{SOURCES[k] : k \in 1..Len(SOURCES)} -> {"fulfilled", "rejected"}]
  /\ mainPc' = SOURCES[1]
  /\ UNCHANGED <<errors, writes, fetchMetadata, exitCode>>
  /\ UNCHANGED <<dashVars, owidVars, aggVars, decVars, geoFetchVars, runVars,
                 tableVars>>

\* The if/else of one source: a fulfilled fetch has its file written, and a
\* write that throws is caught and logged; a rejected fetch is logged and
\* the existing file is read, which never throws.
HandleSource(source) ==
  /\ mainPc = source
  /\ \/ /\ results[source] = "fulfilled"
        /\ \E ok \in BOOLEAN :
             /\ writes' = Append(writes, [file |-> FileOf(source), ok |-> ok])
             /\ errors' = IF ok THEN errors
                          ELSE Append(errors, [source |-> source, of |-> "write"])
             /\ mainPc' = PcAfter(source, ~ok)
     \/ /\ results[source] = "rejected"
        /\ errors' = Append(errors, [source |-> source, of |-> "fetch"])
        /\ writes' = writes
        /\ mainPc' = PcAfter(source, TRUE)
  /\ UNCHANGED <<results, fetchMetadata, exitCode>>
  /\ UNCHANGED <<dashVars, owidVars, aggVars, decVars, geoFetchVars, runVars,
                 tableVars>>

\* The metadata record is built and its write attempted; a write that
\* throws is caught and adds nothing to errors.
WriteMetadata ==
  /\ mainPc = "metadata"
  /\ fetchMetadata' = Computed(MetadataOf(results, errors))
  /\ \E ok \in BOOLEAN :
       writes' = Append(writes, [file |-> METADATA_FILE, ok |-> ok])
  /\ mainPc' = "exit"
  /\ UNCHANGED <<results, errors, exitCode>>
  /\ UNCHANGED <<dashVars, owidVars, aggVars, decVars, geoFetchVars, runVars,
                 tableVars>>

\* if (errors.length > 0) process.exit(1); otherwise main returns and the
\* process ends with code 0.
Exit ==
  /\ mainPc = "exit"
  /\ exitCode' = IF Len(errors) > 0 THEN 1 ELSE 0
  /\ mainPc' = "done"
  /\ UNCHANGED <<results, errors, writes, fetchMetadata>>
  /\ UNCHANGED <<dashVars, owidVars, aggVars, decVars, geoFetchVars, runVars,
                 tableVars>>

NextMain ==
  \/ Settle
  \/ \E k \in 1..Len(SOURCES) : HandleSource(SOURCES[k])
  \/ WriteMetadata
  \/ Exit

SpecMain == InitMain /\ [][NextMain]_vars

\* main is past the if/else of the source.
Handled(source) ==
  \/ mainPc \in {"metadata", "exit", "done"}
  \/ \E k \in 1..Len(SOURCES) : mainPc = SOURCES[k] /\ k > SourceIndex(source)

WriteAttempted(file) == \E k \in 1..Len(writes) : writes[k].file = file
Written(file) == \E k \in 1..Len(writes) : writes[k] = [file |-> file, ok |-> TRUE]
Logged(source) == \E k \in 1..Len(errors) : errors[k].source = source

\* C24: whatever the three fetches and the file writes do, every source
\* whose fetch fulfilled has its file write attempted once main is past it,
\* each write is attempted once and in the order of the sources, and the
\* write of the metadata file is attempted last, after all of them.
C24_EveryFulfilledSourceWritten ==
  /\ \A k \in 1..Len(SOURCES) :
       Handled(SOURCES[k]) =>
         (results[SOURCES[k]] = "fulfilled" <=> WriteAttempted(FILES[k]))
  /\ \A k, h \in 1..Len(writes) :
       /\ writes[k].file = writes[h].file => k = h
       /\ (k < h /\ writes[h].file # METADATA_FILE) =>
            /\ writes[k].file # METADATA_FILE
            /\ SourceIndex(CHOOSE source \in {SOURCES[x] : x \in 1..Len(SOURCES)} :
                             FileOf(source) = writes[k].file)
                 < SourceIndex(CHOOSE source \in {SOURCES[x] : x \in 1..Len(SOURCES)} :
                                 FileOf(source) = writes[h].file)
  /\ mainPc \in {"exit", "done"} =>
       /\ WriteAttempted(METADATA_FILE)
       /\ writes[Len(writes)].file = METADATA_FILE

\* The node fetch rejects, the carbon file fails to write, and the
\* geographical file and the metadata file are written all the same.
C24_Witness ==
  /\ mainPc = "done"
  /\ results["nodes"] = "rejected"
  /\ results["carbonIntensity"] = "fulfilled"
  /\ results["geographical"] = "fulfilled"
  /\ writes = <<[file |-> "carbon-intensity.json", ok |-> FALSE],
                [file |-> "geographical.json", ok |-> TRUE],
                [file |-> "metadata.json", ok |-> TRUE]>>

\* C30: in the metadata record a source is marked isStale = false, with a
\* lastSuccessfulFetch stamp, only if its data file was written in this
\* cycle; every source whose fetch or write failed has an entry in errors;
\* and the exit code is 1 exactly when errors is non-empty.
C30_FreshOnlyIfWritten ==
  mainPc \in {"exit", "done"} =>
    /\ \A k \in 1..Len(SOURCES) :
         LET entry == fetchMetadata.data.dataFreshness[SOURCES[k]]
         IN  /\ (~entry.isStale \/ entry.lastSuccessfulFetch # "N/A")
                  => Written(FILES[k])
             /\ ~Written(FILES[k]) => Logged(SOURCES[k])
    /\ fetchMetadata.data.errors = errors
    /\ mainPc = "done" => (exitCode = 1 <=> Len(errors) > 0)

-----------------------------------------------------------------------------
(* Two runs of the fetchers on one upstream snapshot.                       *)

\* Latest reading of the wall clock.
MaxClock == 2

\* The grouping loop of fetchCarbonIntensityData, run to its end.
RECURSIVE GroupAll(_)
GroupAll(data) ==
  IF data = <<>> THEN <<>>
  ELSE GroupPoint(GroupAll(SubSeq(data, 1, Len(data) - 1)), data[Len(data)])

\* new Date().toISOString() at each reading of the clock, one millisecond
\* apart; the first reading is the instant the caller's timestamp names.
ISO_STRINGS == <<"2024-01-15T12:00:00.000Z", "2024-01-15T12:00:00.001Z",
                 "2024-01-15T12:00:00.002Z", "2024-01-15T12:00:00.003Z",
                 "2024-01-15T12:00:00.004Z", "2024-01-15T12:00:00.005Z">>
ToISOString(now) == ISO_STRINGS[now + 1]

\* fetchCarbonIntensityData(): it takes no argument and stamps its record
\* with new Date().toISOString(), the reading of the clock when it runs.
fetchCarbonIntensityData(data, metadata, now) ==
  LET resolved == CarbonIntensityDataOf(metadata, GroupAll(data))
  IN  Fulfilled([timestamp |-> ToISOString(now),
                 globalAverage |-> resolved.globalAverage,
                 countries |-> resolved.countries])

\* One run of the three fetchers on the snapshot held by the responses: the
\* caller passes ts to the two Nodely fetchers, and the clock reads now.
RunOf(ts, now) ==
  [nodes |-> fetchAllNodeData(nodeTypeResponse, nodeCountResponse, ts),
   geographical |-> fetchNodesByCountry(geoResponse, ts),
   carbonIntensity |-> fetchCarbonIntensityData(owidData, owidMetadata, now)]

\* Node-distribution responses of the snapshot.
RunGeoResponses ==
  {NoResults,
   OneFrame(FrameOfRows(GEO_FIELDS,
                        <<[c |-> StrCell(<<"u", "s">>), nodes |-> NumCell(5)],
                          [c |-> StrCell(<<"D", "E">>), nodes |-> NumCell(9)]>>))}

\* The upstream snapshot is fixed and the clock shows its first reading.
InitRuns ==
  /\ nodeTypeResponse \in PlainNodeTypeResponseInputs
  /\ nodeCountResponse \in {NoResults}
  /\ timestamp \in Timestamps
  /\ nodeResult = NotComputed
  /\ geoResponse \in RunGeoResponses
  /\ geoTimestamp = ""
  /\ geographicalData = NotComputed
  /\ owidData \in SeqsUpTo(OwidPoints, 1)
  /\ owidMetadata \in {<<>>, <<[id |-> 1, name |-> "United States",
                                code |-> Code(<<"U", "S", "A">>)]>>}
  /\ owidIndex = 0
  /\ entityLatestData = <<>>
  /\ carbonIntensityData = NotComputed
  /\ clock = 0
  /\ firstRun = NotComputed
  /\ secondRun = NotComputed
  /\ DashIdle /\ DecIdle /\ MainIdle /\ TableIdle

\* Time passes.
Tick ==
  /\ clock < MaxClock
  /\ clock' = clock + 1
  /\ UNCHANGED <<firstRun, secondRun>>
  /\ UNCHANGED <<dashVars, owidVars, aggVars, decVars, geoFetchVars, mainVars,
                 tableVars>>

\* The first run of the fetchers.
RunFirst ==
  /\ firstRun = NotComputed
  /\ firstRun' = Computed(RunOf(timestamp, clock))
  /\ UNCHANGED <<clock, secondRun>>
  /\ UNCHANGED <<dashVars, owidVars, aggVars, decVars, geoFetchVars, mainVars,
                 tableVars>>

\* The second run, with the same timestamp argument.
RunSecond ==
  /\ firstRun # NotComputed
  /\ secondRun = NotComputed
  /\ secondRun' = Computed(RunOf(timestamp, clock))
  /\ UNCHANGED <<clock, firstRun>>
  /\ UNCHANGED <<dashVars, owidVars, aggVars, decVars, geoFetchVars, mainVars,
                 tableVars>>

NextRuns == Tick \/ RunFirst \/ RunSecond

SpecRuns == InitRuns /\ [][NextRuns]_vars

BothRuns == firstRun # NotComputed /\ secondRun # NotComputed

\* C25: two runs on the same snapshot with the same caller-supplied
\* timestamp produce identical records whatever the clock shows, and the
\* timestamp of each emitted record is the one the caller supplied.
C25_RunsIdentical ==
  BothRuns =>
    /\ firstRun.data = secondRun.data
    /\ \A source \in {"nodes", "geographical", "carbonIntensity"} :
         ~firstRun.data[source].rejected =>
           (IF source = "nodes"
              THEN firstRun.data[source].value.data.timestamp
              ELSE firstRun.data[source].value.timestamp) = timestamp

-----------------------------------------------------------------------------
(* The country table's state (dashboard/src/hooks/useTableState.ts, called  *)
(* by CountryEmissionsTable with filterCountry and the key nodeCount).      *)

\* Most rows of the table's data.
MaxTableRows == 3

\* The columns a click sorts by.
SORT_KEYS == {"countryName", "nodeCount", "nodePercentage", "carbonIntensity",
              "emissionsPercentage", "relativeEmissions"}
DIRECTIONS == {"asc", "desc"}

\* The choices of the rows-per-page select and the default, scaled from
\* 10, 25, 50, 100 and 25 to the lengths of the data drawn.
ROWS_PER_PAGE_OPTIONS == {1, 2}
DEFAULT_ROWS_PER_PAGE == 2

\* String.prototype.toLowerCase, character by character.
ToLowerCase(chars) ==
  [k \in 1..Len(chars) |->
     IF \E v \in 1..26 : UpperCase[v] = chars[k]
       THEN LowerCase[CHOOSE v \in 1..26 : UpperCase[v] = chars[k]]
       ELSE chars[k]]

\* String.prototype.trim, for strings whose white space is the blank.
RECURSIVE Trim(_)
Trim(chars) ==
  IF chars = <<>> THEN <<>>
  ELSE IF chars[1] = " " THEN Trim(Tail(chars))
  ELSE IF chars[Len(chars)] = " " THEN Trim(SubSeq(chars, 1, Len(chars) - 1))
  ELSE chars

\* String.prototype.includes
Includes(chars, part) ==
  \E k \in 0..(Len(chars) - Len(part)) : SubSeq(chars, k + 1, k + Len(part)) = part

\* filterCountry: the query is looked for in the name and in both codes.
filterCountry(country, query) ==
  \/ Includes(ToLowerCase(country.countryName), query)
  \/ Includes(ToLowerCase(country.countryCode2), query)
  \/ IF country.countryCode3.isNull THEN FALSE
     ELSE Includes(ToLowerCase(country.countryCode3.data), query)

\* filteredData
FilteredData(data, query) ==
  IF Trim(query) = <<>> THEN data
  ELSE SelectSeq(data, LAMBDA item : filterCountry(item, Trim(ToLowerCase(query))))

\* Position of a letter in the alphabet, whatever its case.
LetterRank(ch) ==
  CHOOSE v \in 1..26 : LowerCase[v] = ch \/ UpperCase[v] = ch

\* a.localeCompare(b) for names made of letters that differ in their
\* letters: the sign of the first difference, a prefix coming first.
RECURSIVE LocaleCompare(_, _)
LocaleCompare(a, b) ==
  IF a = <<>> /\ b = <<>> THEN 0
  ELSE IF a = <<>> THEN -1
  ELSE IF b = <<>> THEN 1
  ELSE IF LetterRank(a[1]) < LetterRank(b[1]) THEN -1
  ELSE IF LetterRank(a[1]) > LetterRank(b[1]) THEN 1
  ELSE LocaleCompare(Tail(a), Tail(b))

\* aValue === null || aValue === undefined
IsNullValue(item, key) ==
  IF key = "countryName" THEN FALSE ELSE IsNull(item[key])

\* Sign of aValue - bValue, or of aValue.localeCompare(bValue).
CompareValues(a, b, key) ==
  IF key = "countryName" THEN LocaleCompare(a[key], b[key])
  ELSE IF Gt(a[key], b[key]) THEN 1
  ELSE IF Gt(b[key], a[key]) THEN -1
  ELSE 0

\* The comparator of sortedData on two rows that have a value.
Comparator(a, b, config) ==
  IF config.direction = "asc" THEN CompareValues(a, b, config.key)
  ELSE CompareValues(b, a, config.key)

\* Array.prototype.sort on rows that all have a value: the comparator is an
\* order on them, and the sort is stable.
RECURSIVE SortValues(_, _)
SortValues(items, config) ==
  IF items = <<>> THEN <<>>
  ELSE LET sorted == SortValues(SubSeq(items, 1, Len(items) - 1), config)
           item == items[Len(items)]
           before == {k \in 1..Len(sorted) : Comparator(sorted[k], item, config) <= 0}
           n == IF before = {} THEN 0
                ELSE CHOOSE k \in before : \A h \in before : h <= k
       IN  SubSeq(sorted, 1, n) \o <<item>> \o SubSeq(sorted, n + 1, Len(sorted))

\* The orders a sequence can be put in.
Orders(items) ==
  {[k \in 1..Len(items) |-> items[f[k]]] : f \in Permutations(1..Len(items))}

\* Mutation: a row without a value precedes every row that has one.
SortOutcomesNullsFirst(items, config) ==
  LET valued == SelectSeq(items, LAMBDA item : ~IsNullValue(item, config.key))
      nulls == SelectSeq(items, LAMBDA item : IsNullValue(item, config.key))
  IN  {tail \o SortValues(valued, config) : tail \in Orders(nulls)}

\* [...filteredData].sort(comparator).  The comparator answers 1 for a row
\* without a value against any row and -1 for a row with a value against a
\* row without one, so a row without a value is greater than every row that
\* has one; for two rows without a value it answers 1 in both orders, and
\* the order the engine leaves such rows in is not determined.
SortOutcomes(items, config) ==
  LET valued == SelectSeq(items, LAMBDA item : ~IsNullValue(item, config.key))
      nulls == SelectSeq(items, LAMBDA item : IsNullValue(item, config.key))
  IN  {SortValues(valued, config) \o tail : tail \in Orders(nulls)}

\* Math.ceil(a / b) for a >= 0 and b > 0.
Ceil(a, b) == (a + b - 1) \div b

Max(a, b) == IF a > b THEN a ELSE b
Min(a, b) == IF a < b THEN a ELSE b

TotalPages(sorted, rows) == Max(1, Ceil(Len(sorted), rows))
StartIndex(page, rows) == (page - 1) * rows
EndIndex(page, rows, sorted) == Min(StartIndex(page, rows) + rows, Len(sorted))

\* Array.prototype.slice(start, end) for indices within the array.
Slice(array, start, end) ==
  IF end <= start THEN <<>> ELSE SubSeq(array, start + 1, end)

\* Mutation: the page is only kept from falling below 1.
ClampPageFromBelow(page, pages) == Max(1, page)

\* Math.max(1, Math.min(page, totalPages))
ClampPage(page, pages) == Max(1, Min(page, pages))

\* Rows of the merged data: two countries with every figure, one of them
\* with the node count of a country without figures, and an entry whose
\* code has no alpha-3 code and no name.
TABLE_ROWS ==
  {[countryName |-> <<"C", "u", "b", "a">>, countryCode2 |-> <<"C", "U">>,
    countryCode3 |-> Code(<<"C", "U", "B">>), nodeCount |-> I(5),
    nodePercentage |-> I(50), carbonIntensity |-> I(600),
    emissionsPercentage |-> Rat(250, 3), relativeEmissions |-> Rat(5, 3)],
   [countryName |-> <<"P", "e", "r", "u">>, countryCode2 |-> <<"P", "E">>,
    countryCode3 |-> Code(<<"P", "E", "R">>), nodeCount |-> I(2),
    nodePercentage |-> I(20), carbonIntensity |-> I(300),
    emissionsPercentage |-> Rat(50, 3), relativeEmissions |-> Rat(5, 6)],
   [countryName |-> <<"C", "h", "a", "d">>, countryCode2 |-> <<"T", "D">>,
    countryCode3 |-> Code(<<"T", "C", "D">>), nodeCount |-> I(2),
    nodePercentage |-> I(20), carbonIntensity |-> Null,
    emissionsPercentage |-> Null, relativeEmissions |-> Null],
   [countryName |-> <<"X", "K">>, countryCode2 |-> <<"X", "K">>,
    countryCode3 |-> NullCode, nodeCount |-> I(1),
    nodePercentage |-> I(10), carbonIntensity |-> Null,
    emissionsPercentage |-> Null, relativeEmissions |-> Null]}

\* Search strings: empty, blank, matching a name, a code in upper case, a
\* code only, and nothing.
SEARCHES ==
  {<<>>, <<" ">>, <<"c">>, <<"P", "E">>, <<"t", "d", " ">>, <<"z", "z">>}

\* The table is mounted on data of distinct rows, in any order.
InitTable ==
  /\ \E rows \in SUBSET TABLE_ROWS :
       /\ Cardinality(rows) <= MaxTableRows
       /\ \E data \in [1..Cardinality(rows) -> rows] :
            /\ \A k, h \in 1..Cardinality(rows) : data[k] = data[h] => k = h
            /\ tableData = data
  /\ sortConfig = [key |-> "nodeCount", direction |-> "desc"]
  /\ currentPage = 1
  /\ rowsPerPage = DEFAULT_ROWS_PER_PAGE
  /\ searchQuery = <<>>
  /\ sortedData \in SortOutcomes(FilteredData(tableData, searchQuery), sortConfig)
  /\ DashIdle /\ OwidIdle /\ AggIdle /\ DecIdle
  /\ GeoFetchIdle /\ RunIdle /\ MainIdle

\* handleSort(key), and the sortedData of the next render.
handleSort(key) ==
  /\ sortConfig' =
       [key |-> key,
        direction |-> IF sortConfig.key = key /\ sortConfig.direction = "desc"
                        THEN "asc" ELSE "desc"]
  /\ sortedData' \in SortOutcomes(FilteredData(tableData, searchQuery), sortConfig')
  /\ UNCHANGED <<tableData, currentPage, rowsPerPage, searchQuery>>
  /\ UNCHANGED <<dashVars, owidVars, aggVars, decVars, geoFetchVars, runVars,
                 mainVars>>

\* handleSearchChange(value), and the sortedData of the next render.
handleSearchChange(value) ==
  /\ searchQuery' = value
  /\ currentPage' = 1
  /\ sortedData' \in SortOutcomes(FilteredData(tableData, value), sortConfig)
  /\ UNCHANGED <<tableData, sortConfig, rowsPerPage>>
  /\ UNCHANGED <<dashVars, owidVars, aggVars, decVars, geoFetchVars, runVars,
                 mainVars>>

\* handleRowsPerPageChange(rows)
handleRowsPerPageChange(rows) ==
  /\ rowsPerPage' = rows
  /\ currentPage' = 1
  /\ UNCHANGED <<tableData, sortConfig, searchQuery, sortedData>>
  /\ UNCHANGED <<dashVars, owidVars, aggVars, decVars, geoFetchVars, runVars,
                 mainVars>>

\* goToPage(page)
goToPage(page) ==
  /\ currentPage' = ClampPage(page, TotalPages(sortedData, rowsPerPage))
  /\ UNCHANGED <<tableData, sortConfig, rowsPerPage, searchQuery, sortedData>>
  /\ UNCHANGED <<dashVars, owidVars, aggVars, decVars, geoFetchVars, runVars,
                 mainVars>>

NextTable ==
  \/ \E key \in SORT_KEYS : handleSort(key)
  \/ \E value \in SEARCHES : handleSearchChange(value)
  \/ \E rows \in ROWS_PER_PAGE_OPTIONS : handleRowsPerPageChange(rows)
  \/ \E page \in -1..(MaxTableRows + 2) : goToPage(page)

SpecTable == InitTable /\ [][NextTable]_vars

\* What the hook returns besides its state.
totalPages == TotalPages(sortedData, rowsPerPage)
startIndex == StartIndex(currentPage, rowsPerPage)
endIndex == EndIndex(currentPage, rowsPerPage, sortedData)
paginatedData == Slice(sortedData, startIndex, endIndex)

C27_PaginationBounds ==
  /\ 1 <= currentPage /\ currentPage <= totalPages
  /\ 0 <= startIndex /\ startIndex <= endIndex /\ endIndex <= Len(sortedData)
  /\ Len(paginatedData) = endIndex - startIndex
  /\ Len(paginatedData) <= rowsPerPage

\* Page 2 of 2 with two rows per page and three rows: one row is shown.
C27_Witness ==
  /\ Len(sortedData) = 3 /\ rowsPerPage = 2
  /\ currentPage = 2 /\ totalPages = 2
  /\ startIndex = 2 /\ endIndex = 3
  /\ paginatedData = <<sortedData[3]>>

====
